---------------------------- MODULE Spec2Model ----------------------------
(***************************************************************************)
(* mailauth: the SPF entry point (verify, exported as spf) and the DNS     *)
(* resolver wrapper it hands to the SPF evaluator (limitedResolver).       *)
(*                                                                         *)
(* Strings are sequences of one-character strings, so that indexOf, split, *)
(* toLowerCase, trim and the regular expressions are computed as the code  *)
(* computes them.                                                          *)
(***************************************************************************)
EXTENDS Integers, Sequences, FiniteSets, TLC

VARIABLES
    opts,          \* verify's argument: [sender, helo, maxResolveCount]
    pc,            \* position of each verify call
    sender,        \* verify's local `sender` after lines 168-181
    domain,        \* verify's local `domain` (line 183)
    resolveCount,  \* closure variable of limitedResolver (line 92)
    resolveLimit,  \* closure variable maxResolveCount after line 93
    forwarded,     \* number of queries passed on to the injected resolver
    lastQuery,     \* the name of the last query passed on to it
    pending,       \* calls suspended at `await resolver(domain, type)`
    attempts,      \* number of calls of the limited resolver made so far
    caught,        \* the error verify's catch block received (line 220)
    ret,           \* how the last call of the limited resolver completed
    result,        \* verify's local `result`
    response,      \* the object verify returns
    call,          \* the call of a function of lib/tools.js: its name and arguments
    returned       \* what that call returned or threw

vars == << opts, pc, sender, domain, resolveCount, resolveLimit, forwarded,
           lastQuery, pending, attempts, caught, ret, result, response,
           call, returned >>

\* the variables of the SPF entry point
spfVars == << opts, pc, sender, domain, resolveCount, resolveLimit, forwarded,
              lastQuery, pending, attempts, caught, ret, result, response >>

(***************************************************************************)
(* Bounds of the model.                                                    *)
(***************************************************************************)
\* longest MAIL FROM / HELO string drawn as input
MaxLen == 3
\* longest query name the evaluator asks for
MaxNameLen == 3
\* largest maxResolveCount a caller configures (0 stands for "not given")
MaxConfigured == 2
\* most calls of the limited resolver one evaluation makes
MaxAttempts == 4
\* most calls suspended at the injected resolver at one time
MaxInFlight == 2

\* the verify calls of the model; each has its own limitedResolver closure
Evals == {"e1", "e2"}

(***************************************************************************)
(* Strings.                                                                *)
(***************************************************************************)
Chars == {"@", ".", " ", "a", "A"}
NameChars == {"a", "A", "1", "."}
LowerCase == {"a", "p", "o", "s", "t", "m", "e", "r"}
UpperCase == {"A"}
Digits == {"1"}

StrUpTo(C, n) == UNION {[1..k -> C] : k \in 0..n}

Postmaster == <<"p", "o", "s", "t", "m", "a", "s", "t", "e", "r">>

\* String.prototype.indexOf for a single character: 0-based, -1 when absent
IndexOf(s, c) ==
    IF \E i \in 1..Len(s) : s[i] = c
    THEN (CHOOSE i \in 1..Len(s) : s[i] = c /\ \A j \in 1..(i - 1) : s[j] # c) - 1
    ELSE -1

\* 1-based position of the last occurrence of c in s, 0 when absent
LastPos(s, c) ==
    IF \E i \in 1..Len(s) : s[i] = c
    THEN CHOOSE i \in 1..Len(s) : s[i] = c /\ \A j \in (i + 1)..Len(s) : s[j] # c
    ELSE 0

\* s.split(c).pop(): what follows the last c, the whole string without any
SplitPop(s, c) == SubSeq(s, LastPos(s, c) + 1, Len(s))

LowerChar(c) == IF c = "A" THEN "a" ELSE c

ToLowerCase(s) == [i \in 1..Len(s) |-> LowerChar(s[i])]

\* String.prototype.trim: white space and line terminators ("CR" and "LF"
\* are the characters 13 and 10) are removed from both ends
Trim(s) ==
    LET ws == {" ", "CR", "LF"}
    IN  IF \A i \in 1..Len(s) : s[i] \in ws
        THEN << >>
        ELSE LET first == CHOOSE i \in 1..Len(s) :
                              s[i] \notin ws /\ \A j \in 1..(i - 1) : s[j] \in ws
                 last == CHOOSE i \in 1..Len(s) :
                              s[i] \notin ws /\ \A j \in (i + 1)..Len(s) : s[j] \in ws
             IN  SubSeq(s, first, last)

(***************************************************************************)
(* verify, lines 168-183: the sender and the domain evaluated.             *)
(***************************************************************************)
\* line 168: sender = sender || `postmaster@${helo}`
SenderOrHelo(s, helo) == IF s # << >> THEN s ELSE Postmaster \o <<"@">> \o helo

\* AddLocalPart with the '@' added in both branches
AddLocalPartAlwaysAt(s) ==
    LET atPos == IndexOf(s, "@")
    IN  IF atPos <= 0 THEN Postmaster \o <<"@">> \o s ELSE s

\* lines 176-181
AddLocalPart(s) ==
    LET atPos == IndexOf(s, "@")
    IN  IF atPos < 0 THEN Postmaster \o <<"@">> \o s
        ELSE IF atPos = 0 THEN Postmaster \o s
        ELSE s

NormalizeSender(s, helo) == AddLocalPart(SenderOrHelo(s, helo))

\* line 183
DomainOf(s) ==
    LET d == Trim(ToLowerCase(SplitPop(s, "@")))
    IN  IF d # << >> THEN d ELSE <<"-">>

(***************************************************************************)
(* Domain checks.                                                          *)
(***************************************************************************)
\* the labels of a name: a label has no dot and is delimited by dots or ends
IsLabelStart(s, i) == i = 1 \/ s[i - 1] = "."
IsLabelEnd(s, i) == i = Len(s) \/ s[i + 1] = "."
NoEmptyLabel(s) ==
    /\ s # << >>
    /\ s[1] # "." /\ s[Len(s)] # "."
    /\ \A i \in 1..(Len(s) - 1) : ~(s[i] = "." /\ s[i + 1] = ".")

\* line 77: Joi.string().domain({ allowUnicode: false, tlds: false }): at
\* least two labels of letters, digits and inner hyphens, the last one
\* starting with a letter
JoiDomainValid(d) ==
    /\ NoEmptyLabel(d)
    /\ \E i \in 1..Len(d) : d[i] = "."
    /\ \A i \in 1..Len(d) :
          /\ d[i] \in LowerCase \cup UpperCase \cup Digits \cup {"-", "."}
          /\ (d[i] = "-" => ~IsLabelStart(d, i) /\ ~IsLabelEnd(d, i))
    /\ d[LastPos(d, ".") + 1] \in LowerCase \cup UpperCase

\* line 120: /^([\x20-\x2D\x2f-\x7e]+\.)+[a-z]+[a-z\-0-9]*$/.test(domain)
\* (every character of the model is printable ASCII; \x2e, the dot, is the
\* one the first class leaves out)
DomainTest(d) ==
    /\ NoEmptyLabel(d)
    /\ \E i \in 1..Len(d) : d[i] = "."
    /\ LET tld == SplitPop(d, ".")
       IN  /\ tld[1] \in LowerCase
           /\ \A i \in 1..Len(tld) : tld[i] \in LowerCase \cup Digits \cup {"-"}

(***************************************************************************)
(* Values.                                                                 *)
(***************************************************************************)
NoName == <<"?">>
NoSpf == [error |-> "", text |-> ""]
NoLookups == [limit |-> -1, count |-> -1]

\* verify's `result`: absent (undefined) or an object
NoResult == [object |-> FALSE, qualifier |-> "", error |-> "", text |-> "",
             lookups |-> NoLookups]
ResultObject(q, err, text) ==
    [object |-> TRUE, qualifier |-> q, error |-> err, text |-> text,
     lookups |-> NoLookups]

\* an Error object: its code, its message and the spfResult attached to it
ErrorObject(code, message, spf) == [code |-> code, message |-> message, spfResult |-> spf]

NoError == ErrorObject("", "", NoSpf)

NoRet == [kind |-> "none", cause |-> "", value |-> << >>, error |-> ErrorObject("", "", NoSpf)]
Returned(cause, value) ==
    [kind |-> "value", cause |-> cause, value |-> value, error |-> ErrorObject("", "", NoSpf)]
Raised(cause, err) == [kind |-> "error", cause |-> cause, value |-> << >>, error |-> err]

NoHeader == [status |-> "", fields |-> << >>]
NoResponse == [result |-> "", comment |-> "", lookups |-> NoLookups,
               clientIp |-> << >>, helo |-> << >>, header |-> NoHeader,
               domain |-> << >>, envelopeFrom |-> << >>, mailfrom |-> << >>]

SpfResults == {"pass", "fail", "softfail", "neutral", "none", "temperror", "permerror"}

(***************************************************************************)
(* limitedResolver (lines 91-152).                                         *)
(***************************************************************************)
MAX_RESOLVE_COUNT == 50

\* LimitOf ignoring the caller's value
LimitOfDefault(maxResolveCount) == MAX_RESOLVE_COUNT

\* line 93: maxResolveCount = maxResolveCount || MAX_RESOLVE_COUNT
LimitOf(maxResolveCount) ==
    IF maxResolveCount # 0 THEN maxResolveCount ELSE MAX_RESOLVE_COUNT

\* NextCount losing the increment of a call made while the counter is in use
NextCountLost(count) == IF count >= 1 THEN count ELSE count + 1

\* line 107: resolveCount++
NextCount(count) == count + 1

\* CounterAfterRead with the read counted as a query
CounterAfterReadCounted(count) == count + 1

\* lines 95-103: a call without domain and with type 'resolveCount' or
\* 'resolveLimit' returns the counter or the limit before line 107 is
\* reached; the counter after such a call
CounterAfterRead(count) == count

\* OverLimit off by one
OverLimitOffByOne(count, limit) == count > limit + 1

\* line 109
OverLimit(count, limit) == count > limit

\* TooManyError reported as a temporary error
TooManyErrorTemp ==
    ErrorObject("", "Too many DNS requests",
                [error |-> "temperror", text |-> "Too many DNS requests"])

\* lines 110-115
TooManyError ==
    ErrorObject("", "Too many DNS requests",
                [error |-> "permerror", text |-> "Too many DNS requests"])

\* DomainRejected with the test left out
DomainRejectedNever(name) == FALSE

\* lines 118-122: the query is refused when the name fails the test
DomainRejected(name) == ~DomainTest(name)

\* lines 121-128
InvalidDomainError ==
    ErrorObject("", "Failed to validate domain",
                [error |-> "permerror", text |-> "Invalid domain"])

\* what the injected resolver does with one query: it returns records, returns
\* an empty list, or fails with an error code
ResolverOutcomes ==
    {"records", "empty", "ENOTFOUND", "ENODATA", "ETIMEOUT", "ESERVFAIL", "EOTHER"}

\* ResolverCompletion with ENODATA missing from the switch
ResolverCompletionNoData(outcome) ==
    CASE outcome = "records" -> Returned(outcome, <<"rr">>)
      [] outcome = "empty" -> Returned(outcome, << >>)
      [] outcome = "ENOTFOUND" -> Returned(outcome, << >>)
      [] outcome = "ETIMEOUT" ->
            Raised(outcome, ErrorObject(outcome, "query failed",
                                        [error |-> "temperror", text |-> "DNS timeout"]))
      [] OTHER -> Raised(outcome, ErrorObject(outcome, "query failed", NoSpf))

\* lines 131-150: the completion of a call from the injected resolver's
\* outcome
ResolverCompletion(outcome) ==
    CASE outcome = "records" -> Returned(outcome, <<"rr">>)
      [] outcome = "empty" -> Returned(outcome, << >>)
      [] outcome \in {"ENOTFOUND", "ENODATA"} -> Returned(outcome, << >>)
      [] outcome = "ETIMEOUT" ->
            Raised(outcome, ErrorObject(outcome, "query failed",
                                        [error |-> "temperror", text |-> "DNS timeout"]))
      [] OTHER -> Raised(outcome, ErrorObject(outcome, "query failed", NoSpf))

(***************************************************************************)
(* verify (lines 163-308).                                                 *)
(***************************************************************************)
\* CatchResult taking an error without spfResult for a permanent one
CatchResultPerm(err) ==
    IF err.spfResult # NoSpf
    THEN ResultObject("", err.spfResult.error, err.spfResult.text)
    ELSE ResultObject("", "permerror", err.message)

\* lines 220-229: the catch block
CatchResult(err) ==
    IF err.spfResult # NoSpf
    THEN ResultObject("", err.spfResult.error, err.spfResult.text)
    ELSE ResultObject("", "temperror", err.message)

\* lines 201-209: the error thrown for a domain Joi rejects
JoiError == ErrorObject("", "must be a valid domain", [error |-> "none", text |-> "Invalid domain"])

\* lines 231-236
WithLookups(r, limit, count) ==
    IF r.object THEN [r EXCEPT !.lookups = [limit |-> limit, count |-> count]] ELSE r

\* lines 246-249
OrDefault(r) == IF r.object THEN r ELSE ResultObject("?", "", "")

\* line 251: result.qualifier || result.error
SwitchKey(r) == IF r.qualifier # "" THEN r.qualifier ELSE r.error

\* StatusResult without the default branch: an unknown key is passed through
StatusResultPassThrough(r) ==
    LET key == SwitchKey(r)
    IN  CASE key = "+" -> "pass"
          [] key = "~" -> "softfail"
          [] key = "-" -> "fail"
          [] key = "?" -> "neutral"
          [] OTHER -> key

\* StatusResult with the '~' and '-' branches exchanged
StatusResultSwapped(r) ==
    LET key == SwitchKey(r)
    IN  CASE key = "+" -> "pass"
          [] key = "~" -> "fail"
          [] key = "-" -> "softfail"
          [] key = "?" -> "neutral"
          [] key = "none" -> "none"
          [] key = "permerror" -> "permerror"
          [] OTHER -> "temperror"

\* lines 251-289: status.result
StatusResult(r) ==
    LET key == SwitchKey(r)
    IN  CASE key = "+" -> "pass"
          [] key = "~" -> "softfail"
          [] key = "-" -> "fail"
          [] key = "?" -> "neutral"
          [] key = "none" -> "none"
          [] key = "permerror" -> "permerror"
          [] OTHER -> "temperror"

\* lines 255-287: what the comment says after the mta and sender (the text of
\* the error for the two error verdicts)
StatusComment(r) ==
    IF StatusResult(r) \in {"permerror", "temperror"} THEN r.text ELSE ""

\* one `name=value;` field of a header
Field(name, value) == [name |-> name, value |-> value]

\* lines 82-88, formatHeaders: the Received-SPF header of a response, as its
\* status and the fields that follow the status and the parenthesised
\* status.comment; the only field the template of line 83 writes is client-ip
formatHeaders(status, clientIp) ==
    [status |-> status, fields |-> << Field("client-ip", clientIp) >>]

\* lines 187-195 and 238-307: status.result, status.comment, lookups, domain,
\* 'client-ip', helo, 'envelope-from', status.smtp.mailfrom and header
ResponseOf(r, limit, count, s, d, ip, helo) ==
    LET r1 == WithLookups(r, limit, count)
        r2 == OrDefault(r1)
    IN  [result |-> StatusResult(r2), comment |-> StatusComment(r2),
         lookups |-> r2.lookups, domain |-> d, envelopeFrom |-> s, mailfrom |-> s,
         clientIp |-> ip, helo |-> helo,
         header |-> formatHeaders(StatusResult(r2), ip)]

(***************************************************************************)
(* The SPF evaluator (spfVerify), from the specification: it asks the      *)
(* resolver it is given for names, an error of a query ends the            *)
(* evaluation with that error, and it ends with a result or an error of    *)
(* its own.                                                                *)
(***************************************************************************)
Qualifiers == {"+", "-", "~", "?"}

EvaluatorResults ==
    {NoResult}
    \cup {ResultObject(q, "", "") : q \in Qualifiers \cup {"x"}}
    \cup {ResultObject("", err, "") : err \in {"none", "permerror", "temperror", "other", ""}}

EvaluatorErrors ==
    {ErrorObject("", "evaluator failed", NoSpf)}
    \cup {ErrorObject("", "evaluator failed", [error |-> err, text |-> "spf"]) :
            err \in {"none", "permerror", "temperror"}}

(***************************************************************************)
(* Inputs.                                                                 *)
(***************************************************************************)
SenderSamples == { <<"a", "@", "a", ".", "a">>, <<"@">>, << >> }
HeloSamples == { <<"a", ".", "a">> }

\* the address of the client; it has no mapped-IPv6 prefix, so line 171 leaves
\* it as it is
ClientIp == <<"1", ".", "1">>

OptsOf(s, h, m) == [sender |-> s, helo |-> h, maxResolveCount |-> m, ip |-> ClientIp]
IdleOpts == OptsOf(<< >>, << >>, 0)

(***************************************************************************)
(* Actions.                                                                *)
(***************************************************************************)
\* the state before verify is called: the evaluations of R are about to start
SpfInit(R, S, H) ==
    /\ opts \in {f \in [Evals -> {OptsOf(s, h, m) : s \in S, h \in H, m \in 0..MaxConfigured}
                                  \cup {IdleOpts}] :
                   \A e \in Evals : e \notin R <=> f[e] = IdleOpts}
    /\ pc = [e \in Evals |-> IF e \in R THEN "start" ELSE "idle"]
    /\ sender = [e \in Evals |-> << >>]
    /\ domain = [e \in Evals |-> << >>]
    /\ resolveCount = [e \in Evals |-> 0]
    /\ resolveLimit = [e \in Evals |-> 0]
    /\ forwarded = [e \in Evals |-> 0]
    /\ lastQuery = [e \in Evals |-> NoName]
    /\ pending = [e \in Evals |-> 0]
    /\ attempts = [e \in Evals |-> 0]
    /\ caught = [e \in Evals |-> NoError]
    /\ ret = [e \in Evals |-> NoRet]
    /\ result = [e \in Evals |-> NoResult]
    /\ response = [e \in Evals |-> NoResponse]

\* no function of lib/tools.js is called by the SPF entry point before it has
\* built its response
NoCall == [fn |-> "none"]
NoReturn == [kind |-> "none"]

InitOf(R, S, H) ==
    /\ SpfInit(R, S, H)
    /\ call = NoCall
    /\ returned = NoReturn

Init == InitOf({"e1"}, SenderSamples, HeloSamples)

\* verifyResolver with one counter shared by every verify call
verifyResolverShared(e) == "e1"

\* line 197: every call of verify creates its own limitedResolver closure, and
\* with it its own resolveCount and maxResolveCount (lines 92-93); a closure is
\* named after the call that created it
verifyResolver(e) == e

\* verify, lines 220-229: the catch block receives err
Catch(e, err) ==
    /\ caught' = [caught EXCEPT ![e] = err]
    /\ result' = [result EXCEPT ![e] = CatchResult(err)]
    /\ pc' = [pc EXCEPT ![e] = "finish"]

\* verify, lines 164-209: up to the call of spfVerify
VerifyStart(e) ==
    /\ pc[e] = "start"
    /\ LET s == NormalizeSender(opts[e].sender, opts[e].helo)
           d == DomainOf(s)
       IN  /\ sender' = [sender EXCEPT ![e] = s]
           /\ domain' = [domain EXCEPT ![e] = d]
           /\ resolveLimit' = [resolveLimit EXCEPT ![verifyResolver(e)] =
                                   LimitOf(opts[e].maxResolveCount)]
           /\ IF JoiDomainValid(d)
              THEN /\ pc' = [pc EXCEPT ![e] = "eval"]
                   /\ UNCHANGED << result, caught >>
              ELSE Catch(e, JoiError)
    /\ UNCHANGED << opts, resolveCount, forwarded, lastQuery, pending, attempts,
                    ret, response >>
    /\ UNCHANGED << call, returned >>

\* the evaluator calls the limited resolver for `name` (lines 106-132, up to
\* the await)
ResolverCall(e, name) ==
    /\ pc[e] = "eval"
    /\ resolveCount[verifyResolver(e)] < MaxAttempts
    /\ pending[e] < MaxInFlight
    /\ attempts' = [attempts EXCEPT ![e] = @ + 1]
    /\ LET count == NextCount(resolveCount[verifyResolver(e)])
       IN  /\ resolveCount' = [resolveCount EXCEPT ![verifyResolver(e)] = count]
           /\ IF OverLimit(count, resolveLimit[verifyResolver(e)])
              THEN /\ ret' = [ret EXCEPT ![e] = Raised("limit", TooManyError)]
                   /\ Catch(e, TooManyError)
                   /\ UNCHANGED << forwarded, lastQuery, pending >>
              ELSE IF DomainRejected(name)
              THEN /\ ret' = [ret EXCEPT ![e] = Raised("domain", InvalidDomainError)]
                   /\ Catch(e, InvalidDomainError)
                   /\ UNCHANGED << forwarded, lastQuery, pending >>
              ELSE /\ forwarded' = [forwarded EXCEPT ![e] = @ + 1]
                   /\ lastQuery' = [lastQuery EXCEPT ![e] = name]
                   /\ pending' = [pending EXCEPT ![e] = @ + 1]
                   /\ UNCHANGED << ret, result, caught, pc >>
    /\ UNCHANGED << opts, sender, domain, resolveLimit, response >>
    /\ UNCHANGED << call, returned >>

\* the injected resolver settles a suspended call (lines 132-150); an error
\* ends the evaluation if it is still running
ResolverSettle(e, outcome) ==
    /\ pending[e] > 0
    /\ pending' = [pending EXCEPT ![e] = @ - 1]
    /\ LET c == ResolverCompletion(outcome)
       IN  /\ ret' = [ret EXCEPT ![e] = c]
           /\ IF c.kind = "error" /\ pc[e] = "eval"
              THEN Catch(e, c.error)
              ELSE UNCHANGED << result, caught, pc >>
    /\ UNCHANGED << opts, sender, domain, resolveCount, resolveLimit, forwarded,
                    lastQuery, attempts, response >>
    /\ UNCHANGED << call, returned >>

\* spfVerify returns (line 211)
EvaluatorReturn(e, r) ==
    /\ pc[e] = "eval"
    /\ pending[e] = 0
    /\ result' = [result EXCEPT ![e] = r]
    /\ pc' = [pc EXCEPT ![e] = "finish"]
    /\ UNCHANGED << opts, sender, domain, resolveCount, resolveLimit, forwarded,
                    lastQuery, pending, attempts, caught, ret, response >>
    /\ UNCHANGED << call, returned >>

\* spfVerify throws an error of its own (lines 220-229)
EvaluatorThrow(e, err) ==
    /\ pc[e] = "eval"
    /\ Catch(e, err)
    /\ UNCHANGED << opts, sender, domain, resolveCount, resolveLimit, forwarded,
                    lastQuery, pending, attempts, ret, response >>
    /\ UNCHANGED << call, returned >>

\* verify, lines 231-308: the limit and the counter are read with the two
\* special calls of the limited resolver (lines 233-234), neither of which
\* reaches the injected resolver, and the response is built
VerifyFinish(e) ==
    /\ pc[e] = "finish"
    /\ LET limit == resolveLimit[verifyResolver(e)]
           afterLimit == CounterAfterRead(resolveCount[verifyResolver(e)])
           count == CounterAfterRead(afterLimit)
       IN  /\ resolveCount' = [resolveCount EXCEPT ![verifyResolver(e)] = count]
           /\ response' = [response EXCEPT ![e] =
                               ResponseOf(result[e], limit, count,
                                          sender[e], domain[e], opts[e].ip, opts[e].helo)]
    /\ pc' = [pc EXCEPT ![e] = "done"]
    /\ UNCHANGED << opts, sender, domain, resolveLimit, forwarded,
                    lastQuery, pending, attempts, caught, ret, result >>
    /\ UNCHANGED << call, returned >>

Next ==
    \/ \E e \in Evals : VerifyStart(e)
    \/ \E e \in Evals, name \in StrUpTo(NameChars, MaxNameLen) : ResolverCall(e, name)
    \/ \E e \in Evals, outcome \in ResolverOutcomes : ResolverSettle(e, outcome)
    \/ \E e \in Evals, r \in EvaluatorResults : EvaluatorReturn(e, r)
    \/ \E e \in Evals, err \in EvaluatorErrors : EvaluatorThrow(e, err)
    \/ \E e \in Evals : VerifyFinish(e)

Spec == Init /\ [][Next]_vars


(***************************************************************************)
(* The sender and the domain of verify over every short MAIL FROM value.   *)
(***************************************************************************)
InitSender == InitOf({"e1"}, StrUpTo(Chars, MaxLen), HeloSamples)

NextSender ==
    \/ \E e \in Evals : VerifyStart(e)
    \/ \E e \in Evals, r \in EvaluatorResults : EvaluatorReturn(e, r)
    \/ \E e \in Evals : VerifyFinish(e)

SpecSender == InitSender /\ [][NextSender]_vars

(***************************************************************************)
(* Properties.                                                             *)
(***************************************************************************)
Started(e) == pc[e] \notin {"idle", "start"}
Done(e) == pc[e] = "done"

\* C1 as stated: the lookup counter reported as lookups.count never exceeds
\* the configured maximum reported as lookups.limit.
C1_CountNeverExceedsLimit ==
    \A e \in Evals : response[e].lookups.count <= response[e].lookups.limit

\* the queries of an evaluation that were rejected for the limit
RejectedForLimit(e) == IF caught[e] = TooManyError THEN 1 ELSE 0

\* C1, amended: the counter counts every query attempted, the rejected one
\* included. It exceeds the maximum only when a query was rejected with
\* "Too many DNS requests", by that one query, and the verdict is then
\* permerror.
C1_CountExceedsLimitOnlyByRejected ==
    \A e \in Evals :
        /\ Started(e) => resolveCount[e] <= resolveLimit[e] + RejectedForLimit(e)
        /\ response[e].lookups.count <= response[e].lookups.limit + RejectedForLimit(e)
        /\ response[e].lookups.count > response[e].lookups.limit
              => response[e].result = "permerror"

C1_Witness ==
    \E e \in Evals :
        /\ Done(e)
        /\ response[e].lookups # NoLookups
        /\ response[e].lookups.count = response[e].lookups.limit + 1

\* C2: a query attempted once the maximum has been counted is rejected with a
\* permanent error, nothing is passed on to the injected resolver, and the
\* verdict of the evaluation is permerror.
C2_OverLimitRejected ==
    /\ [][\A e \in Evals :
            (resolveCount[e] >= resolveLimit[e] /\ attempts'[e] # attempts[e])
            => /\ forwarded'[e] = forwarded[e]
               /\ pending'[e] = pending[e]
               /\ lastQuery'[e] = lastQuery[e]
               /\ ret'[e].kind = "error"
               /\ ret'[e].error.spfResult.error = "permerror"
               /\ caught'[e] = ret'[e].error]_vars
    /\ [](\A e \in Evals :
            (Done(e) /\ caught[e].message = "Too many DNS requests")
            => /\ response[e].result = "permerror"
               /\ response[e].comment = "Too many DNS requests")

C2_Witness ==
    \E e \in Evals :
        /\ Done(e)
        /\ caught[e].message = "Too many DNS requests"
        /\ forwarded[e] = resolveLimit[e]
        /\ attempts[e] = resolveLimit[e] + 1

\* C3: lookups in flight at the same time share one counter: every call has
\* incremented it exactly once, whatever the interleaving, and at most the
\* configured maximum of queries is passed on to the injected resolver.
C3_SharedCounter ==
    \A e \in Evals :
        /\ resolveCount[e] = attempts[e]
        /\ pending[e] <= forwarded[e]
        /\ Started(e) => forwarded[e] <= resolveLimit[e]

C3_Witness ==
    \E e \in Evals :
        /\ pending[e] >= 2
        /\ forwarded[e] = resolveLimit[e]
        /\ resolveCount[e] = resolveLimit[e]

C5_NotFoundIsEmptyList ==
    \A e \in Evals :
        ret[e].cause \in {"ENOTFOUND", "ENODATA"}
        => /\ ret[e].kind = "value"
           /\ ret[e].value = << >>
           /\ ret[e].error = NoError

C5_Witness ==
    \E e \in Evals : ret[e].cause = "ENODATA" /\ pc[e] = "eval" /\ caught[e] = NoError

\* C6: when the error of a query that failed with ETIMEOUT or ESERVFAIL
\* reaches verify, the verdict is temperror.
C6_TransientIsTemperror ==
    \A e \in Evals :
        (Done(e) /\ caught[e].code \in {"ETIMEOUT", "ESERVFAIL"})
        => response[e].result = "temperror"

C6_Witness ==
    \E e \in Evals : Done(e) /\ caught[e].code = "ESERVFAIL"

\* C7: a name that fails the syntax test is never passed on to the injected
\* resolver; the query is rejected with a permanent error, and the verdict is
\* permerror when that error reaches verify.
C7_InvalidNameNeverForwarded ==
    \A e \in Evals :
        /\ lastQuery[e] # NoName => DomainTest(lastQuery[e])
        /\ forwarded[e] = 0 <=> lastQuery[e] = NoName
        /\ ret[e].cause = "domain"
              => ret[e].kind = "error" /\ ret[e].error.spfResult.error = "permerror"
        /\ (Done(e) /\ caught[e].message = "Failed to validate domain")
              => response[e].result = "permerror"

C7_Witness ==
    \E e \in Evals :
        /\ Done(e)
        /\ caught[e].message = "Failed to validate domain"
        /\ ret[e].cause = "domain"
        /\ forwarded[e] = 1

\* the verdict the claim gives for each qualifier
QualifierVerdict(q) ==
    CASE q = "+" -> "pass"
      [] q = "-" -> "fail"
      [] q = "~" -> "softfail"
      [] q = "?" -> "neutral"

ConfiguredLimit(e) ==
    IF opts[e].maxResolveCount > 0 THEN opts[e].maxResolveCount ELSE 50

\* C9: the limit of an evaluation is maxResolveCount when the caller gives
\* one and 50 otherwise, and lookups.limit reports it.
C9_LimitIsConfiguredOrDefault ==
    \A e \in Evals :
        /\ Started(e) => resolveLimit[e] = ConfiguredLimit(e)
        /\ response[e].lookups # NoLookups
              => response[e].lookups.limit = ConfiguredLimit(e)

C9_Witness ==
    \E e \in Evals :
        /\ Done(e)
        /\ opts[e].maxResolveCount = 1
        /\ response[e].lookups.limit = 1
        /\ response[e].lookups.count = 1

\* a MAIL FROM value without local part: no '@', or '@' as first character
HasNoLocalPart(s) == \A i \in 2..Len(s) : s[i] = "@" => \E j \in 1..(i - 1) : s[j] = "@"

\* s with "postmaster" as its local part
WithPostmaster(s) ==
    IF \E i \in 1..Len(s) : s[i] = "@" THEN Postmaster \o s ELSE Postmaster \o <<"@">> \o s

\* d is what follows the first '@' of s
IsPartAfterFirstAt(d, s) ==
    \E k \in 1..Len(s) :
        /\ s[k] = "@"
        /\ \A j \in 1..(k - 1) : s[j] # "@"
        /\ d = SubSeq(s, k + 1, Len(s))

\* d is what follows the last '@' of s, in lower case and without the spaces
\* around it, or "-" when nothing is left
IsDomainAfterLastAt(d, s) ==
    \E k \in 1..Len(s) :
        /\ s[k] = "@"
        /\ \A j \in (k + 1)..Len(s) : s[j] # "@"
        /\ LET tail == SubSeq(s, k + 1, Len(s))
           IN  IF \A i \in 1..Len(tail) : tail[i] = " "
               THEN d = <<"-">>
               ELSE /\ d[1] # " " /\ d[Len(d)] # " "
                    /\ \E a \in 0..Len(tail) :
                          /\ a + Len(d) <= Len(tail)
                          /\ \A i \in 1..Len(tail) :
                                IF i > a /\ i <= a + Len(d)
                                THEN d[i - a] = LowerChar(tail[i])
                                ELSE tail[i] = " "

\* C10 as stated: for a MAIL FROM value without local part the sender is that
\* value with "postmaster" prepended and the domain is the part after the '@'.
C10_PostmasterPrependedAsStated ==
    \A e \in Evals :
        (Started(e) /\ HasNoLocalPart(opts[e].sender))
        => /\ sender[e] = WithPostmaster(opts[e].sender)
           /\ IsPartAfterFirstAt(domain[e], sender[e])

\* C10, amended: for a MAIL FROM value that is not empty and has no local
\* part the sender is that value with "postmaster" prepended, and an empty
\* value gives postmaster@<helo>; the domain is what follows the last '@' of
\* the sender, in lower case and trimmed, or "-" when nothing is left; the
\* response reports this sender and domain.
C10_PostmasterPrepended ==
    \A e \in Evals :
        (Started(e) /\ HasNoLocalPart(opts[e].sender))
        => /\ opts[e].sender # << >> => sender[e] = WithPostmaster(opts[e].sender)
           /\ opts[e].sender = << >>
                 => sender[e] = Postmaster \o <<"@">> \o opts[e].helo
           /\ IsDomainAfterLastAt(domain[e], sender[e])
           /\ Done(e) => /\ response[e].envelopeFrom = sender[e]
                         /\ response[e].mailfrom = sender[e]
                         /\ response[e].domain = domain[e]

C10_Witness ==
    \E e \in Evals :
        /\ Done(e)
        /\ Len(opts[e].sender) = 3
        /\ opts[e].sender[1] = "@"
        /\ response[e].envelopeFrom = Postmaster \o opts[e].sender
        /\ response[e].domain = <<"a">>

\* the names of the fields of a header, in the order they are written
FieldNames(h) == [i \in 1..Len(h.fields) |-> h.fields[i].name]

\* C11: the Received-SPF header of a response carries, after the status and
\* the comment, the fields client-ip, envelope-from and helo in that order,
\* with the client address, the sender and the HELO name as their values.
C11_HeaderCarriesClientSenderHelo ==
    \A e \in Evals :
        Done(e) =>
            LET h == response[e].header
            IN  /\ h.status = response[e].result
                /\ FieldNames(h) = <<"client-ip", "envelope-from", "helo">>
                /\ h.fields[1].value = response[e].clientIp
                /\ h.fields[2].value = response[e].envelopeFrom
                /\ h.fields[3].value = response[e].helo

(***************************************************************************)
(* lib/tools.js.  Its functions are pure: a call is drawn by the initial   *)
(* state and the action of the function stores what it returns or throws.  *)
(***************************************************************************)
\* a call of fn with its arguments
Call(fn, args) == [fn |-> fn, args |-> args]
\* the call returned v
Value(v) == [kind |-> "value", value |-> v]
\* the call threw an Error with this message and code ("" when none is set)
Thrown(message, code) == [kind |-> "error", message |-> message, code |-> code]

\* the state in which `calls` are the calls that can be made
InitTools(calls) ==
    /\ SpfInit({}, {<< >>}, {<< >>})
    /\ call \in calls
    /\ returned = NoReturn

(***************************************************************************)
(* formatSignatureHeaderLine (lines 142-231).  An object is the sequence   *)
(* of its properties in insertion order, a property a key with a value.    *)
(***************************************************************************)
\* most tags a caller supplies
MaxTags == 3

\* JavaScript values: false, undefined, null and strings (a number is the
\* string the template `${key}=${val}` makes of it)
False == [t |-> "false", s |-> << >>]
Undefined == [t |-> "undefined", s |-> << >>]
Null == [t |-> "null", s |-> << >>]
Str(s) == [t |-> "string", s |-> s]

Prop(key, val) == [key |-> key, val |-> val]

\* `key in o`, o[key] and o[key] = val
HasKey(o, key) == \E i \in 1..Len(o) : o[i].key = key
Get(o, key) ==
    IF HasKey(o, key)
    THEN o[CHOOSE i \in 1..Len(o) : o[i].key = key].val
    ELSE Undefined
Put(o, key, val) ==
    IF HasKey(o, key)
    THEN [i \in 1..Len(o) |-> IF o[i].key = key THEN Prop(key, val) ELSE o[i]]
    ELSE Append(o, Prop(key, val))

\* Object.assign(target, source): the properties of source are set on target
\* in their order
RECURSIVE ObjectAssign(_, _)
ObjectAssign(target, source) ==
    IF source = << >>
    THEN target
    ELSE ObjectAssign(Put(target, Head(source).key, Head(source).val), Tail(source))

\* lines 29-31
keyOrderingDKIM == <<"v", "a", "c", "d", "h", "i", "l", "q", "s", "t", "x", "z", "bh", "b">>
keyOrderingARC == <<"i", "a", "c", "d", "h", "l", "q", "s", "t", "x", "z", "bh", "b">>
keyOrderingAS == <<"i", "a", "t", "cv", "d", "s", "b">>

\* keyOrdering.includes(key) and keyOrdering.indexOf(key)
Includes(list, x) == \E i \in 1..Len(list) : list[i] = x
ListIndexOf(list, x) ==
    IF Includes(list, x)
    THEN (CHOOSE i \in 1..Len(list) : list[i] = x /\ \A j \in 1..(i - 1) : list[j] # x) - 1
    ELSE -1

\* lines 146-186: the header name, the ordering and the defaults of a type;
\* t is Math.round(Date.now() / 1000), the time of the call
KnownTypes == {"DKIM", "ARC", "AS"}
SignatureType(type) ==
    LET t == Prop("t", Str(<<"1", "7">>))
        q == Prop("q", Str(<<"d", "n", "s", "/", "t", "x", "t">>))
    IN  CASE type = "DKIM" ->
               [headerKey |-> "DKIM-Signature", keyOrdering |-> keyOrderingDKIM,
                defaults |-> << Prop("v", Str(<<"1">>)), t, q >>]
          [] type = "ARC" ->
               [headerKey |-> "ARC-Message-Signature", keyOrdering |-> keyOrderingARC,
                defaults |-> << t, q >>]
          [] type = "AS" ->
               [headerKey |-> "ARC-Seal", keyOrdering |-> keyOrderingAS,
                defaults |-> << t >>]


\* line 143: (type || '').toString().toUpperCase(), over the type names of
\* the model
TypeUpperCase(type) ==
    CASE type = "dkim" -> "DKIM"
      [] type = "arc" -> "ARC"
      [] type = "as" -> "AS"
      [] OTHER -> type

\* line 191: the filter of Object.keys(values)
Kept(values, ordering, key) ==
    /\ Get(values, key) # False
    /\ Get(values, key) # Undefined
    /\ Get(values, "key") # Null
    /\ Includes(ordering, key)

\* the place of key in a list sorted by the comparator of line 192
RECURSIVE InsertKey(_, _, _)
InsertKey(sorted, key, ordering) ==
    IF sorted = << >>
    THEN << key >>
    ELSE IF ListIndexOf(ordering, key) - ListIndexOf(ordering, Head(sorted)) < 0
         THEN << key >> \o sorted
         ELSE << Head(sorted) >> \o InsertKey(Tail(sorted), key, ordering)

\* the keys left as they come
SortKeysNone(keys, ordering) == keys

\* line 192: sort((a, b) => keyOrdering.indexOf(a) - keyOrdering.indexOf(b))
RECURSIVE SortKeys(_, _)
SortKeys(keys, ordering) ==
    IF keys = << >>
    THEN << >>
    ELSE InsertKey(SortKeys(SubSeq(keys, 1, Len(keys) - 1), ordering),
                   keys[Len(keys)], ordering)

\* line 197: the length of a segment of the folded signature
FoldWidth == 75

\* the text left unfolded
FoldNone(s) == s

\* line 197: replace(/.{75}/g, '$& '), over text without line terminators
RECURSIVE Fold(_)
Fold(s) ==
    IF Len(s) < FoldWidth
    THEN s
    ELSE SubSeq(s, 1, FoldWidth) \o <<" ">> \o Fold(SubSeq(s, FoldWidth + 1, Len(s)))

\* lines 203 and 214: punycode.toASCII; the names of the model are made of
\* ASCII characters, which it leaves as they are
ToASCII(s) == s

\* lines 193-226: the text of one tag; line 194 is values[key] || '' (the
\* values the filter keeps are strings and null)
TagText(type, key, val, folded) ==
    LET text == IF val.t = "string" THEN val.s ELSE << >>
        keyChars == CASE key = "bh" -> <<"b", "h">>
                      [] key = "cv" -> <<"c", "v">>
                      [] key = "key" -> <<"k", "e", "y">>
                      [] OTHER -> <<key>>
    IN  IF key = "b" /\ folded /\ text # << >>
        THEN Trim(Fold(keyChars \o <<"=">> \o text))
        ELSE IF key \in {"d", "s"}
        THEN keyChars \o <<"=">> \o ToASCII(text)
        ELSE IF key = "i" /\ type = "DKIM" /\ IndexOf(text, "@") >= 0
        THEN keyChars \o <<"=">> \o SubSeq(text, 1, IndexOf(text, "@") + 1)
             \o ToASCII(SubSeq(text, IndexOf(text, "@") + 2, Len(text)))
        ELSE keyChars \o <<"=">> \o text

\* lines 142-231: the header as its name and its tags (joined by '; ' in
\* the code); libmime.foldLines (line 227) breaks lines at white space and
\* is not part of the value
formatSignatureHeaderLine(type0, values0, folded) ==
    LET type == TypeUpperCase(type0)
    IN  IF type \notin KnownTypes
        THEN Thrown("Unknown Signature type", "")
        ELSE LET ordering == SignatureType(type).keyOrdering
                 values == ObjectAssign(SignatureType(type).defaults, values0)
                 allKeys == [i \in 1..Len(values) |-> values[i].key]
                 keys == SortKeys(SelectSeq(allKeys, LAMBDA key : Kept(values, ordering, key)),
                                  ordering)
             IN  Value([headerKey |-> SignatureType(type).headerKey,
                        tags |-> [i \in 1..Len(keys) |->
                                    [key |-> keys[i],
                                     text |-> TagText(type, keys[i],
                                                      Get(values, keys[i]), folded)]]])

\* the call is made
FormatSignatureHeaderLineCall ==
    /\ call.fn = "formatSignatureHeaderLine"
    /\ returned = NoReturn
    /\ returned' = formatSignatureHeaderLine(call.args[1], call.args[2], call.args[3])
    /\ UNCHANGED << spfVars, call >>

\* tag names, values and types a caller passes
TagSamples == {"v", "a", "i", "cv", "b", "key"}
ValueSamples == {False, Undefined, Null, Str(<<"x">>)}
TypeSamples == {"DKIM", "arc", "AS", ""}

\* the objects of at most n properties
ObjectsUpTo(n) ==
    {o \in UNION {[1..k -> {Prop(key, val) : key \in TagSamples, val \in ValueSamples}] :
                    k \in 0..n} :
        \A i, j \in 1..Len(o) : i # j => o[i].key # o[j].key}

InitSignatureHeader ==
    InitTools({Call("formatSignatureHeaderLine", << type, values, FALSE >>) :
                 type \in TypeSamples, values \in ObjectsUpTo(MaxTags)})

SpecSignatureHeader == InitSignatureHeader /\ [][FormatSignatureHeaderLineCall]_vars


\* the tag names of the header returned
TagKeys(r) == [i \in 1..Len(r.value.tags) |-> r.value.tags[i].key]

\* the fixed order of the tags of a header type
TagOrder(type) ==
    CASE type = "DKIM" ->
           <<"v", "a", "c", "d", "h", "i", "l", "q", "s", "t", "x", "z", "bh", "b">>
      [] type = "ARC" -> <<"i", "a", "c", "d", "h", "l", "q", "s", "t", "x", "z", "bh", "b">>
      [] type = "AS" -> <<"i", "a", "t", "cv", "d", "s", "b">>

\* the place of a tag in the order of its type
TagPlace(type, key) == CHOOSE i \in 1..Len(TagOrder(type)) : TagOrder(type)[i] = key

\* the call of formatSignatureHeaderLine has returned a header
SignatureHeaderMade ==
    /\ call.fn = "formatSignatureHeaderLine"
    /\ returned # NoReturn
    /\ TypeUpperCase(call.args[1]) \in KnownTypes

MaxSigLen == 155

\* characters of a base64 signature value
SigChars == <<"A", "b", "+", "/">>

\* the signature value of length n whose characters cycle from place o on
SigOf(n, o) == [i \in 1..n |-> SigChars[((i + o) % Len(SigChars)) + 1]]

InitFold ==
    InitTools({Call("formatSignatureHeaderLine",
                    << "DKIM", << Prop("b", Str(SigOf(n, o))) >>, folded >>) :
                 n \in 0..MaxSigLen, o \in 1..Len(SigChars), folded \in BOOLEAN})

SpecFold == InitFold /\ [][FormatSignatureHeaderLineCall]_vars

\* the text of the b= tag of the header returned
BText(r) == r.value.tags[Len(r.value.tags)].text

\* text without its spaces
RECURSIVE WithoutSpaces(_)
WithoutSpaces(s) ==
    IF s = << >>
    THEN << >>
    ELSE (IF Head(s) = " " THEN << >> ELSE << Head(s) >>) \o WithoutSpaces(Tail(s))

\* the places of the spaces of a text, with the places before and after it
Breaks(s) == {0, Len(s) + 1} \cup {i \in 1..Len(s) : s[i] = " "}

\* the header was asked for with folding and has been returned
FoldedHeaderMade ==
    /\ call.fn = "formatSignatureHeaderLine"
    /\ call.args[3]
    /\ returned # NoReturn

MaxHdrLen == 5

HdrChars == {"CR", "LF", " ", ":", "a", "A"}

\* \s, over the bytes of the model
IsWs(c) == c \in {"CR", "LF", " "}

\* line 78: replace(/[\r\n]+$/, '')
RECURSIVE StripEOL(_)
StripEOL(s) ==
    IF s # << >> /\ s[Len(s)] \in {"CR", "LF"}
    THEN StripEOL(SubSeq(s, 1, Len(s) - 1))
    ELSE s

\* line 79: split(/\r?\n/)
RECURSIVE SplitLines(_)
SplitLines(s) ==
    IF \A i \in 1..Len(s) : s[i] # "LF"
    THEN << s >>
    ELSE LET p == CHOOSE i \in 1..Len(s) : s[i] = "LF" /\ \A j \in 1..(i - 1) : s[j] # "LF"
             q == IF p > 1 /\ s[p - 1] = "CR" THEN p - 2 ELSE p - 1
         IN  << SubSeq(s, 1, q) >> \o SplitLines(SubSeq(s, p + 1, Len(s)))

\* MergeRows leaving every line a row of its own
MergeRowsNone(rows, i) == rows

\* lines 81-86: a row that starts with white space is appended to the row
\* above it, from the last row up; a row is the list of its lines
RECURSIVE MergeRows(_, _)
MergeRows(rows, i) ==
    IF i < 1
    THEN rows
    ELSE IF i > 1 /\ rows[i][1] # << >> /\ IsWs(rows[i][1][1])
         THEN MergeRows([k \in 1..(Len(rows) - 1) |->
                           IF k < i - 1 THEN rows[k]
                           ELSE IF k = i - 1 THEN rows[i - 1] \o rows[i]
                           ELSE rows[k + 1]],
                        i - 1)
         ELSE MergeRows(rows, i - 1)

\* join(''): the texts of a list put one after the other
RECURSIVE Concat(_)
Concat(list) ==
    IF Len(list) = 0 THEN << >> ELSE Head(list) \o Concat(Tail(list))

\* the lines of a row joined without CR LF
JoinRowsBare(row) == Concat(row)

\* line 89: row.join('\r\n')
RECURSIVE JoinRows(_)
JoinRows(row) ==
    IF Len(row) = 0
    THEN << >>
    ELSE IF Len(row) = 1
         THEN Head(row)
         ELSE Head(row) \o <<"CR", "LF">> \o JoinRows(Tail(row))

\* String.prototype.trim, over the bytes of the model
TrimWs(s) ==
    IF \A i \in 1..Len(s) : IsWs(s[i])
    THEN << >>
    ELSE LET first == CHOOSE i \in 1..Len(s) :
                          ~IsWs(s[i]) /\ \A j \in 1..(i - 1) : IsWs(s[j])
             last == CHOOSE i \in 1..Len(s) :
                          ~IsWs(s[i]) /\ \A j \in (i + 1)..Len(s) : IsWs(s[j])
         IN  SubSeq(s, first, last)

\* key and casedKey of a row without a match
NullKey == <<"null">>
UndefinedKey == <<"undefined">>

\* lines 88-98: the entry of a row; m is row.match(/^[^:]+/), the text
\* before the first colon
HeaderEntry(row) ==
    LET line == JoinRows(row)
        m == IF \E i \in 1..Len(line) : line[i] = ":"
             THEN SubSeq(line, 1, (CHOOSE i \in 1..Len(line) :
                                      line[i] = ":" /\ \A j \in 1..(i - 1) : line[j] # ":") - 1)
             ELSE line
    IN  IF m = << >>
        THEN [key |-> NullKey, casedKey |-> UndefinedKey, line |-> line]
        ELSE [key |-> ToLowerCase(TrimWs(m)), casedKey |-> TrimWs(m), line |-> line]

\* lines 75-101: the list `parsed` of the value returned
parseHeaders(buf) ==
    LET lines == SplitLines(StripEOL(buf))
        rows == MergeRows([i \in 1..Len(lines) |-> << lines[i] >>], Len(lines))
    IN  Value([i \in 1..Len(rows) |-> HeaderEntry(rows[i])])

ParseHeadersCall ==
    /\ call.fn = "parseHeaders"
    /\ returned = NoReturn
    /\ returned' = parseHeaders(call.args[1])
    /\ UNCHANGED << spfVars, call >>

InitHeaders == InitTools({Call("parseHeaders", << buf >>) : buf \in StrUpTo(HdrChars, MaxHdrLen)})

SpecHeaders == InitHeaders /\ [][ParseHeadersCall]_vars


\* the header block has been parsed
HeadersParsed == call.fn = "parseHeaders" /\ returned # NoReturn

\* text is a run of consecutive bytes of s
IsBlockOf(text, s) ==
    \E o \in 0..(Len(s) - Len(text)) : SubSeq(s, o + 1, o + Len(text)) = text

RECURSIVE WithCRLF(_, _)
WithCRLF(s, afterCR) ==
    IF s = << >>
    THEN << >>
    ELSE (IF Head(s) = "LF" /\ ~afterCR THEN <<"CR", "LF">> ELSE << Head(s) >>)
         \o WithCRLF(Tail(s), Head(s) = "CR")

\* the raw lines of the entries, one after the other with CR LF between them
AllLines(entries) == JoinRows([i \in 1..Len(entries) |-> entries[i].line])

\* no LF of the text stands without a CR before it
NoBareLF(s) == \A i \in 1..Len(s) : s[i] = "LF" => (i > 1 /\ s[i - 1] = "CR")

MaxLineLen == 5

\* line 382: replace(/\r?\n/g, '')
Unfold(s) ==
    LET Gone(i) == s[i] = "LF" \/ (s[i] = "CR" /\ i < Len(s) /\ s[i + 1] = "LF")
        F[i \in 0..Len(s)] ==
            IF i = 0 THEN << >> ELSE IF Gone(i) THEN F[i - 1] ELSE Append(F[i - 1], s[i])
    IN  F[Len(s)]

\* the text after its leading white space
RECURSIVE SkipWs(_)
SkipWs(s) == IF s # << >> /\ IsWs(Head(s)) THEN SkipWs(Tail(s)) ELSE s

\* the key left as it is
ReplaceKeyNone(s) == s

\* line 384: replace(/^([^:]*):\s*/, (m, k) => k.toLowerCase().trim() + ':')
ReplaceKey(s) ==
    IF \E i \in 1..Len(s) : s[i] = ":"
    THEN LET p == CHOOSE i \in 1..Len(s) : s[i] = ":" /\ \A j \in 1..(i - 1) : s[j] # ":"
         IN  TrimWs(ToLowerCase(SubSeq(s, 1, p - 1))) \o <<":">>
             \o SkipWs(SubSeq(s, p + 1, Len(s)))
    ELSE s

\* line 386: replace(/\s+/g, ' ')
Collapse(s) ==
    LET F[i \in 0..Len(s)] ==
            IF i = 0 THEN << >>
            ELSE IF ~IsWs(s[i]) THEN Append(F[i - 1], s[i])
            ELSE IF i > 1 /\ IsWs(s[i - 1]) THEN F[i - 1]
            ELSE Append(F[i - 1], " ")
    IN  F[Len(s)]

\* lines 377-390; suffix is << >> when the caller passes none
formatRelaxedLine(line, suffix) ==
    Value(TrimWs(Collapse(ReplaceKey(Unfold(line)))) \o suffix)

FormatRelaxedLineCall ==
    /\ call.fn = "formatRelaxedLine"
    /\ returned = NoReturn
    /\ returned' = formatRelaxedLine(call.args[1], call.args[2])
    /\ UNCHANGED << spfVars, call >>

CRLF == <<"CR", "LF">>

InitRelaxed ==
    InitTools({Call("formatRelaxedLine", << line, suffix >>) :
                 line \in StrUpTo(HdrChars, MaxLineLen), suffix \in {<< >>, CRLF}})

SpecRelaxed == InitRelaxed /\ [][FormatRelaxedLineCall]_vars

\* the line has been put in relaxed form
RelaxedMade == call.fn = "formatRelaxedLine" /\ returned # NoReturn

\* text without its white space
RECURSIVE WithoutWs(_)
WithoutWs(s) ==
    IF s = << >>
    THEN << >>
    ELSE (IF IsWs(Head(s)) THEN << >> ELSE << Head(s) >>) \o WithoutWs(Tail(s))

\* the place of the first colon of a text, 0 when it has none
FirstColon(s) ==
    IF \E i \in 1..Len(s) : s[i] = ":"
    THEN CHOOSE i \in 1..Len(s) : s[i] = ":" /\ \A j \in 1..(i - 1) : s[j] # ":"
    ELSE 0

\* the text with the letters before its first colon in lower case
WithLowerKey(s) ==
    [i \in 1..Len(s) |-> IF i < FirstColon(s) /\ s[i] = "A" THEN "a" ELSE s[i]]

\* body is a relaxed form of line: the key before the first colon is in
\* lower case, no white space stands on either side of that colon, there is
\* no CR or LF, no two white spaces in a row, no white space at either end,
\* and nothing but white space and the case of the key differs from line
IsRelaxedForm(body, line) ==
    LET p == FirstColon(body)
    IN  /\ (FirstColon(line) > 0) = (p > 0)
        /\ \A i \in 1..Len(body) : i < p => body[i] # "A"
        /\ p > 1 => body[p - 1] # " "
        /\ (p > 0 /\ p < Len(body)) => body[p + 1] # " "
        /\ \A i \in 1..Len(body) : body[i] \notin {"CR", "LF"}
        /\ \A i \in 1..(Len(body) - 1) : ~(body[i] = " " /\ body[i + 1] = " ")
        /\ body # << >> => (body[1] # " " /\ body[Len(body)] # " ")
        /\ WithoutWs(body) = WithoutWs(WithLowerKey(line))

MaxHeaders == 3
MaxNames == 3

\* names as a header or a list of field names writes them
CasedKeySamples == { <<"a">>, <<"A">>, <<"b">> }
RawNameSamples == { <<"a">>, <<"A">>, <<" ", "b">>, << >> }

\* names joined with ':', as the h= tag lists them
RECURSIVE JoinNames(_)
JoinNames(names) ==
    IF Len(names) = 0
    THEN << >>
    ELSE IF Len(names) = 1
         THEN Head(names)
         ELSE Head(names) \o <<":">> \o JoinNames(Tail(names))

\* line 105: split(':')
RECURSIVE SplitColon(_)
SplitColon(s) ==
    IF FirstColon(s) = 0
    THEN << s >>
    ELSE << SubSeq(s, 1, FirstColon(s) - 1) >> \o SplitColon(SubSeq(s, FirstColon(s) + 1, Len(s)))

\* lines 104-107: the field names trimmed, lower-cased and without the empty ones
FieldNamesOf(fieldNames) ==
    LET raw == SplitColon(fieldNames)
        F[i \in 0..Len(raw)] ==
            IF i = 0 THEN << >>
            ELSE IF ToLowerCase(TrimWs(raw[i])) = << >> THEN F[i - 1]
            ELSE Append(F[i - 1], ToLowerCase(TrimWs(raw[i])))
    IN  F[Len(raw)]

\* the first place of the list with this key, 0 when there is none
FindFirst(list, key) ==
    IF \E i \in 1..Len(list) : list[i].key = key
    THEN CHOOSE i \in 1..Len(list) : list[i].key = key /\ \A j \in 1..(i - 1) : list[j].key # key
    ELSE 0

\* lines 113-120: the last place of the list with this key, 0 when there is none
FindLast(list, key) ==
    IF \E i \in 1..Len(list) : list[i].key = key
    THEN CHOOSE i \in 1..Len(list) :
             list[i].key = key /\ \A j \in (i + 1)..Len(list) : list[j].key # key
    ELSE 0

\* lines 111-122: verification; each name takes the last header of its key
\* that is left in parsedList, which parsedList.splice(i, 1) then removes
RECURSIVE SelectForVerify(_, _)
SelectForVerify(names, parsedList) ==
    IF names = << >>
    THEN << >>
    ELSE LET i == FindLast(parsedList, Head(names))
             spliced == [k \in 1..(Len(parsedList) - 1) |->
                           IF k < i THEN parsedList[k] ELSE parsedList[k + 1]]
         IN  IF i > 0
             THEN << parsedList[i] >> \o SelectForVerify(Tail(names), spliced)
             ELSE SelectForVerify(Tail(names), parsedList)

\* SelectForSign taking the headers from the top down
SelectForSignTopDown(names, parsedHeaders) ==
    SelectSeq(parsedHeaders, LAMBDA h : Includes(names, h.key))

\* line 133: join(': ')
RECURSIVE JoinKeys(_)
JoinKeys(list) ==
    IF Len(list) = 0
    THEN << >>
    ELSE IF Len(list) = 1
         THEN Head(list)
         ELSE Head(list) \o <<":", " ">> \o JoinKeys(Tail(list))

\* lines 123-129: signing; the headers whose key is listed, from the bottom up
SelectForSign(names, parsedHeaders) ==
    LET n == Len(parsedHeaders)
        F[i \in 0..n] ==
            IF i = 0 THEN << >>
            ELSE IF Includes(names, parsedHeaders[n + 1 - i].key)
                 THEN Append(F[i - 1], parsedHeaders[n + 1 - i])
                 ELSE F[i - 1]
    IN  F[n]

\* lines 103-136
getSigningHeaderLines(parsedHeaders, fieldNames, verify) ==
    LET names == FieldNamesOf(fieldNames)
        signingList == IF verify
                       THEN SelectForVerify(names, parsedHeaders)
                       ELSE SelectForSign(names, parsedHeaders)
    IN  Value([keys |-> JoinKeys([i \in 1..Len(signingList) |-> signingList[i].casedKey]),
               headers |-> signingList])

GetSigningHeaderLinesCall ==
    /\ call.fn = "getSigningHeaderLines"
    /\ returned = NoReturn
    /\ returned' = getSigningHeaderLines(call.args[1], call.args[2], call.args[3])
    /\ UNCHANGED << spfVars, call >>

\* the header blocks and the lists of field names drawn as input; a header
\* is the entry parseHeaders makes of it (lines 90-97)
HeaderBlocks ==
    {[i \in 1..Len(c) |-> [key |-> ToLowerCase(c[i]), casedKey |-> c[i], pos |-> i]] :
        c \in StrUpTo(CasedKeySamples, MaxHeaders)}
FieldNameLists == {JoinNames(names) : names \in StrUpTo(RawNameSamples, MaxNames)}

InitSigningHeaders ==
    InitTools({Call("getSigningHeaderLines", << headers, fieldNames, verify >>) :
                 headers \in HeaderBlocks, fieldNames \in FieldNameLists, verify \in BOOLEAN})

SpecSigningHeaders == InitSigningHeaders /\ [][GetSigningHeaderLinesCall]_vars


\* the headers have been selected for verification
SelectedForVerify ==
    /\ call.fn = "getSigningHeaderLines"
    /\ call.args[3]
    /\ returned # NoReturn

\* the places, in the header block, of the headers selected
SelectedPlaces(r) == [i \in 1..Len(r.value.headers) |-> r.value.headers[i].pos]

\* the place of the header the j-th name stands for: the k-th header of that
\* name counted from the bottom of the block, where the name is listed for
\* the k-th time; 0 when the block has fewer than k headers of that name
PlaceForName(headers, names, j) ==
    LET k == Cardinality({i \in 1..j : names[i] = names[j]})
        C == {p \in 1..Len(headers) : headers[p].key = names[j]}
    IN  IF k <= Cardinality(C)
        THEN CHOOSE p \in C : Cardinality({q \in C : q > p}) = k - 1
        ELSE 0

\* what the names contribute, one after the other: a name with a header to
\* stand for contributes that header, a name without one contributes nothing
Contributions(headers, names) ==
    LET F[j \in 0..Len(names)] ==
            IF j = 0 THEN << >>
            ELSE IF PlaceForName(headers, names, j) = 0 THEN F[j - 1]
            ELSE Append(F[j - 1], PlaceForName(headers, names, j))
    IN  F[Len(names)]

MaxLabels == 3
MaxCandidates == 2

Labels == {"a", "A", "b"}

\* lines 392-400, formatDomain: lower case; the labels have no white space to
\* trim and no character punycode.toASCII would encode
formatDomain(d) == [i \in 1..Len(d) |-> IF d[i] = "A" THEN "a" ELSE d[i]]

\* psl.get of no registrable domain
NoDomain == << >>

\* psl.get: the registrable domain of a name, its public suffix (the last
\* label) with the label before it, in lower case; null for a name that is
\* a public suffix itself
PslGet(d) ==
    IF Len(d) < 2 THEN NoDomain ELSE formatDomain(SubSeq(d, Len(d) - 1, Len(d)))

\* psl.get(domain) || domain
OrgDomain(d) == IF PslGet(d) # NoDomain THEN PslGet(d) ELSE d

\* the value returned for a domain that aligns, and `false`
Aligned(d) == Value([aligned |-> TRUE, domain |-> d])
NotAligned == Value([aligned |-> FALSE, domain |-> NoDomain])

\* lines 405-411 and 415-421: the first candidate whose registrable domain
\* is `from`
FirstMatch(from, domainList) ==
    IF \E i \in 1..Len(domainList) : formatDomain(OrgDomain(domainList[i])) = from
    THEN Aligned(formatDomain(OrgDomain(domainList[
             CHOOSE i \in 1..Len(domainList) :
                 /\ formatDomain(OrgDomain(domainList[i])) = from
                 /\ \A j \in 1..(i - 1) : formatDomain(OrgDomain(domainList[j])) # from])))
    ELSE NotAligned

\* lines 402-424
getAligment(fromDomain, domainList, strict) ==
    IF strict /\ FirstMatch(formatDomain(fromDomain), domainList) # NotAligned
    THEN FirstMatch(formatDomain(fromDomain), domainList)
    ELSE FirstMatch(formatDomain(OrgDomain(IF strict THEN formatDomain(fromDomain)
                                                     ELSE fromDomain)),
                    domainList)

GetAligmentCall ==
    /\ call.fn = "getAligment"
    /\ returned = NoReturn
    /\ returned' = getAligment(call.args[1], call.args[2], call.args[3])
    /\ UNCHANGED << spfVars, call >>

DomainNames == StrUpTo(Labels, MaxLabels) \ {<< >>}

InitAlignment ==
    InitTools({Call("getAligment", << from, list, strict >>) :
                 from \in DomainNames, list \in StrUpTo(DomainNames, MaxCandidates),
                 strict \in BOOLEAN})

SpecAlignment == InitAlignment /\ [][GetAligmentCall]_vars

\* the alignment has been decided
AlignmentDecided == call.fn = "getAligment" /\ returned # NoReturn

\* two names are identical after case normalisation
SameName(d1, d2) == formatDomain(d1) = formatDomain(d2)

\* two names share their organizational domain
SameOrganization(d1, d2) == formatDomain(OrgDomain(d1)) = formatDomain(OrgDomain(d2))

\* C17: in strict mode the From domain aligns only if a candidate domain is
\* identical to it after case normalisation (candidates that merely share
\* its organizational domain do not make it align), while in relaxed mode it
\* aligns when a candidate shares its organizational domain.
C17_StrictNeedsIdenticalDomain ==
    AlignmentDecided =>
        LET from == call.args[1]
            list == call.args[2]
        IN  IF call.args[3]
            THEN returned.value.aligned => \E i \in 1..Len(list) : SameName(list[i], from)
            ELSE (\E i \in 1..Len(list) : SameOrganization(list[i], from))
                     => returned.value.aligned


(***************************************************************************)
(* getPublicKey (lines 233-291).  The text of a TXT record is a sequence   *)
(* of tokens: the tag names with their '=', the separator ';', white       *)
(* space, and the base64 text of a key.  The resolver argument is what it  *)
(* resolves the name to.                                                   *)
(***************************************************************************)
\* longest TXT record drawn as input
MaxTxtLen == 4

\* "R" is the base64 text of an RSA key of 2048 bits, "r" of an RSA key of
\* 512 bits and "E" of an ed25519 key
TxtTokens == {"p=", "v=", "k=", ";", " ", "R"}

\* the resolver resolves to `list`, or rejects
Resolves(list) == [kind |-> "list", list |-> list]
Rejects == [kind |-> "error"]

\* line 240: [].concat(list[0] || []).join('')
JoinFragments(list) == IF list = << >> THEN << >> ELSE Concat(Head(list))

\* white space kept
StripWsNone(s) == s

\* line 241: replace(/\s+/g, '')
StripWs(s) == SelectSeq(s, LAMBDA c : c # " ")

\* the tag-list parser (parseDkimHeaders), from the specification: the
\* text is cut at every ';', a part that starts with a tag name is a tag
\* whose value is the rest of the part, and of two tags of one name the
\* later one is the one looked up
RECURSIVE SplitSemi(_)
SplitSemi(s) ==
    IF \A i \in 1..Len(s) : s[i] # ";"
    THEN << s >>
    ELSE LET p == CHOOSE i \in 1..Len(s) : s[i] = ";" /\ \A j \in 1..(i - 1) : s[j] # ";"
         IN  << SubSeq(s, 1, p - 1) >> \o SplitSemi(SubSeq(s, p + 1, Len(s)))

parseDkimHeaders(text) ==
    LET parts == Tail(SplitSemi(text))
        TagName(token) == CASE token = "p=" -> "p"
                            [] token = "v=" -> "v"
                            [] token = "k=" -> "k"
                            [] OTHER -> ""
        F[i \in 0..Len(parts)] ==
            IF i = 0 THEN << >>
            ELSE IF parts[i] # << >> /\ TagName(parts[i][1]) # ""
                 THEN Put(F[i - 1], TagName(parts[i][1]), Str(Tail(parts[i])))
                 ELSE F[i - 1]
    IN  F[Len(parts)]

\* every key value taken as given
NoKeyValueNever(publicKey) == FALSE

\* line 249: !publicKey
NoKeyValue(publicKey) == publicKey = << >>

\* line 256: the version tag is there and is not dkim1
UnknownVersion(type, parsed) ==
    /\ type = "DKIM"
    /\ HasKey(parsed, "v")
    /\ Get(parsed, "v").s \notin { <<"DKIM1">>, <<"dkim1">> }

\* lines 263-265: crypto.createPublicKey; the type and the modulus length of
\* the key, "" for a text that is not a public key
KeyTypeOf(publicKey) ==
    CASE publicKey \in { <<"R">>, <<"r">> } -> "rsa"
      [] publicKey = <<"E">> -> "ed25519"
      [] OTHER -> ""
ModulusLength(publicKey) ==
    CASE publicKey = <<"R">> -> 2048
      [] publicKey = <<"r">> -> 512
      [] OTHER -> 0

\* line 267: the key type is not one of the two, or is not the one of k=
UnknownKeyType(keyType, parsed) ==
    \/ keyType \notin {"rsa", "ed25519"}
    \/ (HasKey(parsed, "k") /\ Get(parsed, "k").s # << keyType >>)

\* line 276: the shortest RSA modulus accepted
MinModulusLength == 1024

\* line 3: the file is in strict mode ('use strict')
StrictMode == TRUE

\* line 264 assigns to publicKeyPem; no let, const, var, parameter or import of
\* the file declares that name, and Node defines no global of that name
PublicKeyPemDeclared == FALSE

\* line 264: in strict mode the assignment to a name that is not declared
\* throws a ReferenceError
AssignmentThrows == StrictMode /\ ~PublicKeyPemDeclared

\* an error with the record text attached (err.rr)
ThrownWithRr(message, code, rr) ==
    [kind |-> "error", message |-> message, code |-> code, rr |-> rr]

\* lines 233-291
getPublicKey(type, name, minBitLength, resolver) ==
    IF resolver.kind = "error"
    THEN Thrown("queryTxt failed", "ENOTFOUND")
    ELSE LET rr == StripWs(JoinFragments(resolver.list))
             \* line 246: parseDkimHeaders(`DNS: TXT;${rr}`)
             parsed == parseDkimHeaders(<<"DNS: TXT", ";">> \o rr)
             \* line 248: entry?.parsed?.p?.value
             publicKey == IF HasKey(parsed, "p") THEN Get(parsed, "p").s ELSE << >>
             keyType == KeyTypeOf(publicKey)
         IN  IF rr = << >>
             THEN Thrown("Missing key value", "EINVALIDVAL")
             ELSE IF NoKeyValue(publicKey)
             THEN ThrownWithRr("Missing key value", "EINVALIDVAL", rr)
             ELSE IF UnknownVersion(type, parsed)
             THEN ThrownWithRr("Unknown key version", "EINVALIDVER", rr)
             ELSE IF AssignmentThrows
             THEN Thrown("publicKeyPem is not defined", "ReferenceError")
             ELSE IF keyType = ""
             THEN Thrown("createPublicKey failed", "ERR_OSSL_UNSUPPORTED")
             ELSE IF UnknownKeyType(keyType, parsed)
             THEN ThrownWithRr("Unknown key type", "EINVALIDTYPE", rr)
             ELSE IF keyType = "rsa" /\ ModulusLength(publicKey) < MinModulusLength
             THEN ThrownWithRr("Key too short", "ESHORTKEY", rr)
             ELSE Value([publicKey |-> publicKey, rr |-> rr])

GetPublicKeyCall ==
    /\ call.fn = "getPublicKey"
    /\ returned = NoReturn
    /\ returned' = getPublicKey(call.args[1], call.args[2], call.args[3], call.args[4])
    /\ UNCHANGED << spfVars, call >>

\* the answers of the resolver: it rejects, it has no record, or it has one
\* record of two string fragments
TxtAnswers ==
    {Rejects, Resolves(<< >>)}
    \cup UNION {{Resolves(<< << SubSeq(txt, 1, cut), SubSeq(txt, cut + 1, Len(txt)) >> >>) :
                    cut \in 0..Len(txt)} : txt \in StrUpTo(TxtTokens, MaxTxtLen)}

InitPublicKey ==
    InitTools({Call("getPublicKey", << type, <<"a", ".", "a">>, 0, resolver >>) :
                 type \in {"DKIM", "ARC"}, resolver \in TxtAnswers})

SpecPublicKey == InitPublicKey /\ [][GetPublicKeyCall]_vars


\* the resolver has answered with a record and getPublicKey has completed
KeyRecordRead ==
    /\ call.fn = "getPublicKey"
    /\ returned # NoReturn
    /\ call.args[4].kind = "list"
    /\ call.args[4].list # << >>

\* the string fragments of the record, joined in order
RecordText == Concat(call.args[4].list[1])

\* the places where a p= tag starts in a text without white space
PTagPlaces(text) == {i \in 1..Len(text) : text[i] = "p=" /\ (i = 1 \/ text[i - 1] = ";")}

\* the record has a p= tag and no p= tag with a value
HasEmptyKeyTag(text) ==
    /\ PTagPlaces(text) # {}
    /\ \A i \in PTagPlaces(text) : i = Len(text) \/ text[i + 1] = ";"

\* the record has no p= tag
HasNoKeyTag(text) == text # << >> /\ PTagPlaces(text) = {}

\* the error of a missing key
IsMissingKeyError(r) ==
    r.kind = "error" /\ r.message = "Missing key value" /\ r.code = "EINVALIDVAL"

HasRecordText == KeyRecordRead /\ "rr" \in DOMAIN (IF returned.kind = "value" THEN returned.value ELSE returned)

\* the text of the record as getPublicKey gives it back
ReturnedRr == IF returned.kind = "value" THEN returned.value.rr ELSE returned.rr

\* C19 (as stated): the record text returned is the string fragments of the
\* record joined in order, nothing added and nothing removed.
C19_RecordTextVerbatim ==
    HasRecordText => ReturnedRr = RecordText

\* C19: the record text returned is the string fragments of the record
\* joined in order without their white space: it has no white space, and
\* nothing else is added or removed.
C19_RecordTextWithoutWhiteSpace ==
    HasRecordText =>
        /\ ReturnedRr = WithoutSpaces(RecordText)
        /\ \A i \in 1..Len(ReturnedRr) : ReturnedRr[i] # " "

\* a record cut in two fragments, with white space in both, is read and its
\* text is given back with the error raised for it
C19_Witness ==
    /\ HasRecordText
    /\ call.args[4].list[1] = << <<"k=", " ">>, <<" ", "R">> >>
    /\ returned.kind = "error"
    /\ ReturnedRr = <<"k=", "R">>


(***************************************************************************)
(* validateAlgorithm (lines 426-445).  An algorithm name is a sequence of  *)
(* tokens: names of algorithms in either case, '-' and other text; no two  *)
(* tokens put together make the name of an algorithm.                      *)
(***************************************************************************)
\* longest algorithm name drawn as input
MaxAlgoLen == 3

AlgoTokens == {"rsa", "RSA", "ed25519", "sha1", "sha256", "SHA256", "-", "x"}

\* line 432: toLowerCase, over the tokens
LowerToken(t) ==
    CASE t = "RSA" -> "rsa"
      [] t = "SHA256" -> "sha256"
      [] OTHER -> t

\* line 428: /^[^-]+-[^-]+$/.test(algorithm)
HasAlgorithmFormat(a) ==
    \E p \in 2..(Len(a) - 1) : a[p] = "-" /\ \A i \in 1..Len(a) : i # p => a[i] # "-"

\* line 432: the two parts of algorithm.toLowerCase().split('-')
SignAlgo(a) ==
    LET p == CHOOSE i \in 1..Len(a) : a[i] = "-"
    IN  [i \in 1..(p - 1) |-> LowerToken(a[i])]
HashAlgo(a) ==
    LET p == CHOOSE i \in 1..Len(a) : a[i] = "-"
    IN  [i \in 1..(Len(a) - p) |-> LowerToken(a[p + i])]

\* line 434
SignAlgos == { <<"rsa">>, <<"ed25519">> }

\* sha1 taken in strict mode too
HashAlgosLax(strict) == { <<"sha256">>, <<"sha1">> }

\* line 438: ['sha256'].concat(!strict ? 'sha1' : [])
HashAlgos(strict) == { <<"sha256">> } \cup (IF ~strict THEN { <<"sha1">> } ELSE {})

\* lines 426-445; every error thrown in the try block gets the code of line 442
validateAlgorithm(algorithm, strict) ==
    IF algorithm = << >> \/ ~HasAlgorithmFormat(algorithm)
    THEN Thrown("Invalid algorithm format", "EINVALIDALGO")
    ELSE IF SignAlgo(algorithm) \notin SignAlgos
    THEN Thrown("Unknown signing algorithm", "EINVALIDALGO")
    ELSE IF HashAlgo(algorithm) \notin HashAlgos(strict)
    THEN Thrown("Unknown hashing algorithm", "EINVALIDALGO")
    ELSE Value(Undefined)

ValidateAlgorithmCall ==
    /\ call.fn = "validateAlgorithm"
    /\ returned = NoReturn
    /\ returned' = validateAlgorithm(call.args[1], call.args[2])
    /\ UNCHANGED << spfVars, call >>

InitAlgorithm ==
    InitTools({Call("validateAlgorithm", << algorithm, strict >>) :
                 algorithm \in StrUpTo(AlgoTokens, MaxAlgoLen), strict \in BOOLEAN})

SpecAlgorithm == InitAlgorithm /\ [][ValidateAlgorithmCall]_vars

\* the algorithm name has been validated
AlgorithmValidated == call.fn = "validateAlgorithm" /\ returned # NoReturn

\* the names <sign>-<hash> with sign in {rsa, ed25519} and hash in {sha1,
\* sha256}, in either case, without sha1 in strict mode
AcceptedNames(strict) ==
    {<< s, "-", h >> : s \in {"rsa", "RSA", "ed25519"},
                       h \in {"sha256", "SHA256"} \cup (IF strict THEN {} ELSE {"sha1"})}

\* C20: validateAlgorithm returns for an algorithm name exactly when the
\* name is <sign>-<hash> with sign one of rsa and ed25519 and hash one of
\* sha1 and sha256, in either case, sha1 being refused in strict mode; for
\* every other name it throws an error with the code EINVALIDALGO.
C20_AlgorithmAccepted ==
    AlgorithmValidated =>
        /\ (returned.kind = "value") = (call.args[1] \in AcceptedNames(call.args[2]))
        /\ returned.kind # "value" => (returned.kind = "error" /\ returned.code = "EINVALIDALGO")

\* sha1 is refused in strict mode
C20_Witness ==
    /\ AlgorithmValidated
    /\ call.args = << <<"RSA", "-", "sha1">>, TRUE >>
    /\ returned.kind = "error"
    /\ returned.code = "EINVALIDALGO"

(***************************************************************************)
(* The relaxed body hasher (RelaxedHash of lib/dkim/body/relaxed), from    *)
(* the specification: of each line the trailing white space is stripped    *)
(* and a run of white space becomes one space, a line ends with CR LF, the  *)
(* empty lines at the end of the body are dropped, and the state kept       *)
(* between two chunks is the white space and the line endings the body      *)
(* ends with so far.  The digest is represented by the bytes that were      *)
(* handed to the hash function.                                             *)
(***************************************************************************)
\* longest body drawn as input
MaxBodyLen == 5

BodyChars == {"CR", "LF", " ", "a"}

\* CarryLen holding nothing back
CarryLenNone(buf) == 0

\* the number of bytes at the end of buf that are white space or line endings
RECURSIVE CarryLen(_)
CarryLen(buf) ==
    IF buf # << >> /\ buf[Len(buf)] \in {" ", "CR", "LF"}
    THEN 1 + CarryLen(SubSeq(buf, 1, Len(buf) - 1))
    ELSE 0

\* the canonical form of a text: white space before a line ending or at the
\* end of the text is dropped, any other run of white space is one space, a
\* line ending (CR LF or LF) is CR LF
RECURSIVE RelaxedCanon(_)
RelaxedCanon(s) ==
    IF s = << >>
    THEN << >>
    ELSE IF s[1] = " "
    THEN LET k == CHOOSE i \in 1..(Len(s) + 1) :
                      /\ \A j \in 1..(i - 1) : s[j] = " "
                      /\ (i <= Len(s) => s[i] # " ")
             rest == SubSeq(s, k, Len(s))
         IN  IF \/ rest = << >>
                \/ rest[1] = "LF"
                \/ (Len(rest) >= 2 /\ rest[1] = "CR" /\ rest[2] = "LF")
             THEN RelaxedCanon(rest)
             ELSE <<" ">> \o RelaxedCanon(rest)
    ELSE IF Len(s) >= 2 /\ s[1] = "CR" /\ s[2] = "LF"
    THEN <<"CR", "LF">> \o RelaxedCanon(SubSeq(s, 3, Len(s)))
    ELSE IF s[1] = "LF"
    THEN <<"CR", "LF">> \o RelaxedCanon(Tail(s))
    ELSE << s[1] >> \o RelaxedCanon(Tail(s))

\* new RelaxedHash(): nothing hashed, nothing held back
NewRelaxedHash == [hashed |-> << >>, carry |-> << >>]

\* update(chunk): the bytes held back and the chunk, up to the last byte that
\* is neither white space nor a line ending, are hashed in canonical form;
\* the rest is held back
RelaxedUpdate(h, chunk) ==
    LET buf == h.carry \o chunk
        n == Len(buf) - CarryLen(buf)
    IN  [hashed |-> h.hashed \o RelaxedCanon(SubSeq(buf, 1, n)),
         carry |-> SubSeq(buf, n + 1, Len(buf))]

\* digest(): what is held back is dropped, and a body that is not empty
\* ends with one CR LF
RelaxedDigest(h) ==
    IF h.hashed = << >> THEN << >> ELSE h.hashed \o <<"CR", "LF">>

\* the next n bytes of the body are passed to update()
RelaxedHashUpdate(n) ==
    /\ call.fn = "RelaxedHash"
    /\ returned = NoReturn
    /\ call.fed + n <= Len(call.args[1])
    /\ call' = [call EXCEPT !.fed = @ + n,
                            !.chunks = @ + 1,
                            !.hash = RelaxedUpdate(@, SubSeq(call.args[1], call.fed + 1,
                                                             call.fed + n))]
    /\ UNCHANGED << spfVars, returned >>

\* digest() is called once the whole body has been passed
RelaxedHashDigest ==
    /\ call.fn = "RelaxedHash"
    /\ returned = NoReturn
    /\ call.fed = Len(call.args[1])
    /\ returned' = Value(RelaxedDigest(call.hash))
    /\ UNCHANGED << spfVars, call >>

InitRelaxedHash ==
    InitTools({[fn |-> "RelaxedHash", args |-> << body >>, fed |-> 0, chunks |-> 0,
                hash |-> NewRelaxedHash] : body \in StrUpTo(BodyChars, MaxBodyLen)})

NextRelaxedHash ==
    \/ \E n \in 1..MaxBodyLen : RelaxedHashUpdate(n)
    \/ RelaxedHashDigest

SpecRelaxedHash == InitRelaxedHash /\ [][NextRelaxedHash]_vars

\* the digest of the body has been taken
BodyDigested == call.fn = "RelaxedHash" /\ returned # NoReturn

\* the digest of a body passed to update() in one chunk
DigestInOneChunk(body) == RelaxedDigest(RelaxedUpdate(NewRelaxedHash, body))

\* C21: whatever chunks the body is passed in to update(), byte by byte
\* included, the digest is the digest of the body passed in one chunk.
C21_DigestIndependentOfChunks ==
    BodyDigested => returned.value = DigestInOneChunk(call.args[1])

\* a body whose white space and line ending were passed byte by byte
C21_Witness ==
    /\ BodyDigested
    /\ call.args[1] = <<"a", " ", "CR", "LF", "a">>
    /\ call.chunks = 5
    /\ returned.value = <<"a", "CR", "LF", "a", "CR", "LF">>

(***************************************************************************)
(* Two calls of verify in flight at the same time.  Each runs up to its    *)
(* next await in one step; the steps of the two calls interleave in every  *)
(* order.                                                                   *)
(***************************************************************************)
\* the names the evaluator asks for: one the limited resolver forwards and
\* one it rejects
QueryNames == { <<"a", ".", "a">>, <<"a">> }

\* both calls start from the same sender; the first is given the limit 1,
\* the second the limit MaxConfigured
InitConcurrent ==
    /\ InitOf(Evals, { <<"a", "@", "a", ".", "a">> }, HeloSamples)
    /\ opts["e1"].maxResolveCount = 1
    /\ opts["e2"].maxResolveCount = MaxConfigured

NextConcurrent ==
    \/ \E e \in Evals : VerifyStart(e)
    \/ \E e \in Evals, name \in QueryNames : ResolverCall(e, name)
    \/ \E e \in Evals, outcome \in {"records", "ENOTFOUND", "ETIMEOUT"} : ResolverSettle(e, outcome)
    \/ \E e \in Evals : EvaluatorReturn(e, ResultObject("+", "", ""))
    \/ \E e \in Evals, err \in EvaluatorErrors : EvaluatorThrow(e, err)
    \/ \E e \in Evals : VerifyFinish(e)

SpecConcurrent == InitConcurrent /\ [][NextConcurrent]_vars

\* the step leaves the counter, the limit, the result and the response of
\* evaluation e as they are
Untouched(e) ==
    /\ resolveCount'[e] = resolveCount[e]
    /\ resolveLimit'[e] = resolveLimit[e]
    /\ result'[e] = result[e]
    /\ response'[e] = response[e]

\* the step is a query of evaluation e
QueryOf(e) == attempts'[e] = attempts[e] + 1

\* C22: a query of one evaluation leaves the count, the limit and the
\* verdict of the other evaluation unchanged, in every interleaving; the
\* count each evaluation reports is the number of its own queries and its
\* limit is the one it was given.
C22_EvaluationsIndependent ==
    /\ [][\A e \in Evals : QueryOf(e) => \A o \in Evals \ {e} : Untouched(o)]_vars
    /\ [](\A e \in Evals :
             Done(e) => /\ response[e].lookups.count = attempts[e]
                        /\ response[e].lookups.limit = LimitOf(opts[e].maxResolveCount))

\* both evaluations have asked and finished, the first stopped by its limit
\* and the second, with more queries, passing
C22_Witness ==
    /\ Done("e1") /\ Done("e2")
    /\ response["e1"].result = "permerror"
    /\ response["e1"].lookups = [limit |-> 1, count |-> 2]
    /\ response["e2"].result = "pass"
    /\ response["e2"].lookups = [limit |-> MaxConfigured, count |-> 2]

(***************************************************************************)
(* parseHeaders: the entries and the lines of the header block.            *)
(***************************************************************************)
\* the lines of a header block: its text without the final line endings,
\* cut at every line ending
LinesOf(buf) == SplitLines(StripEOL(buf))

\* the lines that start a header: the first one and every line that does not
\* begin with white space
HeaderStarts(lines) ==
    {i \in 1..Len(lines) : i = 1 \/ lines[i] = << >> \/ ~IsWs(lines[i][1])}

\* the line that starts the k-th header, and the line after its last line
StartOf(lines, k) ==
    CHOOSE i \in HeaderStarts(lines) :
        Cardinality({j \in HeaderStarts(lines) : j <= i}) = k
EndOf(lines, k) ==
    IF k = Cardinality(HeaderStarts(lines)) THEN Len(lines) + 1 ELSE StartOf(lines, k + 1)

\* C23: parseHeaders yields one entry for the first line and one for every
\* later line that does not begin with white space, in the order of the
\* block; the entry holds that line followed by the lines up to the next
\* such line, in their order, so that a line that begins with white space
\* is part of the entry of the nearest line before it that starts one, and
\* no line is dropped or found in another entry.
C23_OneEntryPerLogicalHeader ==
    HeadersParsed =>
        LET lines == LinesOf(call.args[1])
            entries == returned.value
        IN  /\ Len(entries) = Cardinality(HeaderStarts(lines))
            /\ \A k \in 1..Len(entries) :
                   entries[k].line =
                       JoinRows(SubSeq(lines, StartOf(lines, k), EndOf(lines, k) - 1))

\* a header of two lines followed by a header of one line
C23_Witness ==
    /\ HeadersParsed
    /\ call.args[1] = <<"a", "LF", " ", "LF", "A">>
    /\ Len(returned.value) = 2
    /\ returned.value[1].line = <<"a", "CR", "LF", " ">>
    /\ returned.value[2].line = <<"A">>

(***************************************************************************)
(* writeToStream (lines 33-73) for a string or a buffer.  The call record   *)
(* holds the locals of the call (input after line 37, chunkSize after line  *)
(* 34, pos), the callbacks that are waiting (setImmediate callbacks and     *)
(* 'drain' listeners) and what the stream has seen: the chunks written, in  *)
(* order, the number of calls of end(), whether its last write() returned   *)
(* false and no 'drain' was emitted since, the events it has emitted.       *)
(* `returned` is the promise: pending, resolved or rejected.                *)
(***************************************************************************)
\* longest input, in characters, and largest chunkSize a caller passes (0
\* stands for "not given")
MaxInputLen == 3
MaxChunkSize == 2

\* line 34: 64 * 1024
DefaultChunkSize == 65536

\* Buffer.from(string): the UTF-8 bytes of the string; of the characters of
\* the model only "é" takes two bytes
RECURSIVE Utf8(_)
Utf8(str) ==
    IF str = << >>
    THEN << >>
    ELSE (IF Head(str) = "é" THEN <<"C3", "A9">> ELSE << Head(str) >>) \o Utf8(Tail(str))

\* lines 36-38
ToBuffer(input) == IF input.type = "string" THEN Utf8(input.data) ELSE input.data

\* SliceChunk taking all that is left of the input
SliceChunkRest(input, pos, chunkSize) == SubSeq(input, pos + 1, Len(input))

\* lines 51-56: the bytes from pos, at most chunkSize of them
SliceChunk(input, pos, chunkSize) ==
    IF pos + chunkSize >= Len(input)
    THEN SubSeq(input, pos + 1, Len(input))
    ELSE SubSeq(input, pos + 1, pos + chunkSize)

\* AfterWrite scheduling nothing
AfterWriteStop(c, ok) == c

\* AfterWrite going on without waiting for 'drain'
AfterWriteNoWait(c, ok) == [c EXCEPT !.immediates = @ + 1]

\* lines 59-63: after write() returned ok, writeChunk waits for 'drain' when
\* it is false and for the next turn of the event loop otherwise
AfterWrite(c, ok) ==
    IF ok THEN [c EXCEPT !.immediates = @ + 1] ELSE [c EXCEPT !.drainListeners = @ + 1]

\* lines 46-64, writeChunk: ok is what stream.write returns
writeChunk(c, ok) ==
    IF c.pos >= Len(c.input)
    THEN [c EXCEPT !.stream.ended = @ + 1]
    ELSE LET chunk == SliceChunk(c.input, c.pos, c.chunkSize)
         IN  AfterWrite([c EXCEPT !.pos = @ + Len(chunk),
                                  !.stream.writes = Append(@, chunk),
                                  !.stream.needDrain = ~ok],
                        ok)

NoStream == [writes |-> << >>, ended |-> 0, needDrain |-> FALSE, drains |-> 0,
             emitted |-> {}, errored |-> FALSE]

\* lines 33-45 and 66-72: the call up to the return of the promise
WriteToStreamCall ==
    /\ call.fn = "writeToStream"
    /\ ~call.called
    /\ call' = [call EXCEPT !.called = TRUE,
                            !.chunkSize = IF call.args[2] # 0 THEN call.args[2]
                                          ELSE DefaultChunkSize,
                            !.input = ToBuffer(call.args[1]),
                            !.immediates = 1]
    /\ UNCHANGED << spfVars, returned >>

\* a callback of setImmediate runs writeChunk
ImmediateWriteChunk(ok) ==
    /\ call.fn = "writeToStream"
    /\ call.called
    /\ call.immediates > 0
    /\ call' = writeChunk([call EXCEPT !.immediates = @ - 1], ok)
    /\ UNCHANGED << spfVars, returned >>

\* the stream emits 'drain'; the listener of line 60, registered with once(),
\* runs writeChunk
StreamDrain(ok) ==
    /\ call.fn = "writeToStream"
    /\ call.stream.needDrain
    /\ ~call.stream.errored
    /\ LET c == [call EXCEPT !.stream.needDrain = FALSE, !.stream.drains = @ + 1]
       IN  call' = IF c.drainListeners > 0
                   THEN writeChunk([c EXCEPT !.drainListeners = @ - 1], ok)
                   ELSE c
    /\ UNCHANGED << spfVars, returned >>

\* the ended stream emits 'finish' or 'end' (lines 68-69: resolve)
StreamFinish(event) ==
    /\ call.fn = "writeToStream"
    /\ call.stream.ended > 0
    /\ ~call.stream.errored
    /\ event \notin call.stream.emitted
    /\ call' = [call EXCEPT !.stream.emitted = @ \cup {event}]
    /\ returned' = IF returned = NoReturn THEN Value("resolved") ELSE returned
    /\ UNCHANGED spfVars

\* the stream emits 'error' before it has finished (line 70: reject); it
\* emits no other event afterwards
StreamError ==
    /\ call.fn = "writeToStream"
    /\ call.called
    /\ ~call.stream.errored
    /\ call.stream.emitted = {}
    /\ call' = [call EXCEPT !.stream.errored = TRUE]
    /\ returned' = IF returned = NoReturn THEN Thrown("stream error", "") ELSE returned
    /\ UNCHANGED spfVars

\* the inputs: buffers and strings
StreamInputs ==
    {[type |-> "buffer", data |-> d] : d \in StrUpTo({"a", "b"}, MaxInputLen)}
    \cup {[type |-> "string", data |-> d] : d \in StrUpTo({"a", "é"}, MaxInputLen)}

InitWriteToStream ==
    InitTools({[fn |-> "writeToStream", args |-> << input, chunkSize >>, called |-> FALSE,
                input |-> << >>, chunkSize |-> 0, pos |-> 0, immediates |-> 0,
                drainListeners |-> 0, stream |-> NoStream] :
                   input \in StreamInputs, chunkSize \in 0..MaxChunkSize})

NextWriteToStream ==
    \/ WriteToStreamCall
    \/ \E ok \in BOOLEAN : ImmediateWriteChunk(ok)
    \/ \E ok \in BOOLEAN : StreamDrain(ok)
    \/ \E event \in {"finish", "end"} : StreamFinish(event)
    \/ StreamError

\* the callbacks of setImmediate run, and the stream emits 'drain' after a
\* write that returned false and 'finish' or 'end' after it was ended
SpecWriteToStream ==
    /\ InitWriteToStream
    /\ [][NextWriteToStream]_vars
    /\ WF_vars(\E ok \in BOOLEAN : ImmediateWriteChunk(ok))
    /\ WF_vars(\E ok \in BOOLEAN : StreamDrain(ok))
    /\ WF_vars(\E event \in {"finish", "end"} : StreamFinish(event))
    /\ WF_vars(WriteToStreamCall)

\* writeToStream has been called
Writing == call.fn = "writeToStream" /\ call.called

\* the bytes of the input: those of a buffer, the UTF-8 bytes of a string
InputBytes == IF call.args[1].type = "string" THEN Utf8(call.args[1].data) ELSE call.args[1].data

\* the chunk size in force
ChunkLimit == IF call.args[2] # 0 THEN call.args[2] ELSE DefaultChunkSize

\* C24: the chunks written so far, in order, are the first bytes of the
\* input, each chunk holds at least one and at most chunkSize bytes, the
\* stream is ended at most once and only when the chunks are the whole
\* input, nothing is written after the end, and unless the stream fails it
\* is ended; an empty input is ended without a write.
C24_ChunksAreTheInput ==
    /\ [](Writing =>
            LET s == call.stream
                written == Concat(s.writes)
            IN  /\ written = SubSeq(InputBytes, 1, Len(written))
                /\ Len(written) = call.pos
                /\ \A i \in 1..Len(s.writes) :
                       Len(s.writes[i]) >= 1 /\ Len(s.writes[i]) <= ChunkLimit
                /\ s.ended <= 1
                /\ s.ended = 1 => written = InputBytes
                /\ InputBytes = << >> => s.writes = << >>)
    /\ [][(Writing /\ call.stream.ended = 1) =>
             (call.stream.writes' = call.stream.writes /\ call.stream.ended' = 1)]_vars
    /\ <>(Writing /\ (call.stream.ended = 1 \/ call.stream.errored))

\* an input of three bytes written in two chunks, and the stream ended
C24_Witness ==
    /\ Writing
    /\ call.args = << [type |-> "buffer", data |-> <<"a", "b", "a">>], 2 >>
    /\ call.stream.writes = << <<"a", "b">>, <<"a">> >>
    /\ call.stream.ended = 1

\* C24 for an empty input: reached when the stream of an empty string has
\* been ended
C24_WitnessEmpty ==
    /\ Writing
    /\ call.args[1] = [type |-> "string", data |-> << >>]
    /\ call.stream.writes = << >>
    /\ call.stream.ended = 1


\* the callbacks that will run writeChunk
PendingWrites == call.immediates + call.drainListeners

\* C25: while the last write has returned false and the stream has not
\* emitted 'drain' since, no chunk is written and the stream is not ended,
\* except by the emission of 'drain' itself; every chunk written, the one
\* after a drain included, starts at the first byte not yet written; and at
\* most one run of writeChunk is waiting at any time.
C25_BackPressureRespected ==
    /\ [][(Writing /\ call.stream.needDrain
              /\ (call.stream.writes' # call.stream.writes
                    \/ call.stream.ended' # call.stream.ended))
             => call.stream.drains' = call.stream.drains + 1]_vars
    /\ [][(Writing /\ call.stream.writes' # call.stream.writes) =>
             LET n == Len(Concat(call.stream.writes))
                 k == Len(call.stream.writes') 
             IN  /\ k = Len(call.stream.writes) + 1
                 /\ SubSeq(call.stream.writes', 1, k - 1) = call.stream.writes
                 /\ call.stream.writes'[k] =
                        SubSeq(InputBytes, n + 1, n + Len(call.stream.writes'[k]))]_vars
    /\ [](Writing => PendingWrites <= 1)
    /\ [](Writing => (call.stream.needDrain => call.immediates = 0))

\* a write returned false, the stream drained, and the rest of the input was
\* written after it
C25_Witness ==
    /\ Writing
    /\ call.args = << [type |-> "buffer", data |-> <<"a", "b">>], 1 >>
    /\ call.stream.drains = 1
    /\ ~call.stream.needDrain
    /\ call.stream.writes = << <<"a">>, <<"b">> >>

\* the promise is resolved or rejected
Resolved == returned = Value("resolved")
Rejected == returned # NoReturn /\ returned.kind = "error"

\* C26: with the callbacks of setImmediate run and with a stream that emits
\* 'drain' after every write that returned false and 'finish' or 'end' after
\* it was ended, the promise of a buffer or string input is eventually
\* resolved unless the stream emits 'error'; it is resolved only after the
\* stream was ended and emitted 'finish' or 'end', and once the stream has
\* emitted 'error' the promise is rejected.
C26_PromiseSettles ==
    /\ <>(call.fn = "writeToStream" /\ (Resolved \/ call.stream.errored))
    /\ [](Writing => (call.stream.errored => Rejected))
    /\ [](Writing => (Resolved => (call.stream.ended = 1 /\ call.stream.emitted # {})))

\* the promise of an input written in two chunks with a wait for 'drain' is
\* resolved
C26_Witness ==
    /\ Writing
    /\ Resolved
    /\ call.stream.drains >= 1
    /\ Len(call.stream.writes) = 2

\* the promise is rejected after the stream failed during the writes
C26_WitnessRejected ==
    /\ Writing
    /\ Rejected
    /\ call.stream.errored
    /\ Len(call.stream.writes) = 1

(***************************************************************************)
(* The reads of the counter and of the limit at the end of verify.         *)
(***************************************************************************)
\* the step is the one in which verify reads the limit and the counter and
\* builds the response of evaluation e
ReadsCounters(e) == pc[e] = "finish" /\ pc'[e] = "done"

\* C27: the two reads of the limited resolver at the end of verify leave
\* the counter as it is and pass no query on to the injected resolver, so
\* lookups.count, when the response has lookups, is the number of calls
\* the evaluator made of the limited resolver, rejected queries and
\* queries answered with an empty list included.
C27_ReadsLeaveCounter ==
    /\ [][\A e \in Evals :
             ReadsCounters(e) => /\ resolveCount'[e] = resolveCount[e]
                                 /\ forwarded'[e] = forwarded[e]
                                 /\ pending'[e] = pending[e]]_vars
    /\ [](\A e \in Evals :
             (Done(e) /\ response[e].lookups # NoLookups)
                 => response[e].lookups.count = attempts[e])

\* an evaluation whose first query was answered with an empty list and
\* whose second query was rejected for its name reports two lookups
C27_Witness ==
    \E e \in Evals :
        /\ Done(e)
        /\ caught[e] = InvalidDomainError
        /\ ret[e] = Returned("empty", << >>)
        /\ forwarded[e] = 1
        /\ attempts[e] = 2
        /\ response[e].lookups.count = 2

(***************************************************************************)
(* getSigningHeaderLines: signing and verification.                        *)
(***************************************************************************)
\* the headers have been selected for signing
SelectedForSign ==
    /\ call.fn = "getSigningHeaderLines"
    /\ ~call.args[3]
    /\ returned # NoReturn

\* C28: when signing has selected the headers S of a header list and
\* reports the names K, verification with the field names K selects, of
\* the same header list, the headers S in the same order (and reports the
\* same names).
C28_SignAndVerifyAgree ==
    SelectedForSign =>
        getSigningHeaderLines(call.args[1], returned.value.keys, TRUE) = returned

\* signing has selected two headers of the same name, the lower one first
C28_Witness ==
    /\ SelectedForSign
    /\ Len(call.args[1]) = 3
    /\ SelectedPlaces(returned) = << 3, 1 >>
    /\ returned.value.keys = <<"A", ":", " ", "a">>

(***************************************************************************)
(* The status comment of verify (lines 251-289), the Received-SPF header   *)
(* (formatHeaders, lines 82-88, before libmime.foldLines folds a header of  *)
(* more than 160 characters) and the Authentication-Results row             *)
(* (formatAuthHeaderRow, lib/tools.js lines 352-375), as texts.  "DEL" is   *)
(* the character 127.                                                       *)
(***************************************************************************)
\* longest text a caller or a DNS error puts into the comment
MaxCommentLen == 3

CommentChars == {"CR", "LF", ")", "\\", "DEL", " ", "a"}

\* replace(/[\x00-\x1F]+/g, ' '): a run of these characters becomes one space
ReplaceControls(s) ==
    LET ctl == {"CR", "LF"}
        F[i \in 0..Len(s)] ==
            IF i = 0 THEN << >>
            ELSE IF s[i] \notin ctl THEN Append(F[i - 1], s[i])
            ELSE IF i > 1 /\ s[i - 1] \in ctl THEN F[i - 1]
            ELSE Append(F[i - 1], " ")
    IN  F[Len(s)]

\* escapeCommentValue leaving the value as it is
escapeCommentValueNone(value) == value

\* lib/tools.js lines 342-350
escapeCommentValue(value) ==
    LET v == Trim(Collapse(ReplaceControls(value)))
    IN  Concat([i \in 1..Len(v) |->
                   IF v[i] \in {"\\", ")"} THEN <<"\\", v[i]>> ELSE << v[i] >>])

\* lib/tools.js lines 326-341: a value with none of the characters of line
\* 333 is written as it is, any other between double quotes
escapePropValue(value) ==
    LET v == Trim(Collapse(ReplaceControls(value)))
    IN  IF \A i \in 1..Len(v) : v[i] \in {"a", "A", "p", "o", "s", "t", "m", "e", "r",
                                          "@", ".", "-", "1"}
        THEN v
        ELSE <<"\"">>
             \o Concat([i \in 1..Len(v) |->
                           IF v[i] \in {"\\", "\""} THEN <<"\\", v[i]>> ELSE << v[i] >>])
             \o <<"\"">>

\* a word of the program text as the sequence of its characters
ResultText(status) ==
    CASE status = "pass" -> <<"p", "a", "s", "s">>
      [] status = "softfail" -> <<"s", "o", "f", "t", "f", "a", "i", "l">>
      [] status = "fail" -> <<"f", "a", "i", "l">>
      [] status = "neutral" -> <<"n", "e", "u", "t", "r", "a", "l">>
      [] status = "none" -> <<"n", "o", "n", "e">>
      [] status = "permerror" -> <<"p", "e", "r", "m", "e", "r", "r", "o", "r">>
      [] OTHER -> <<"t", "e", "m", "p", "e", "r", "r", "o", "r">>

\* verify, lines 251-289: status.comment
CommentOf(r, mta, s, ip, d) ==
    LET key == StatusResult(r)
        text == IF r.text # << >> THEN <<":", " ">> \o r.text ELSE << >>
    IN  CASE key = "pass" ->
               mta \o <<":", " ", "d", "o", "m", "a", "i", "n", " ", "o", "f", " ">> \o s \o <<" ", "d", "e", "s", "i", "g", "n", "a", "t", "e", "s", " ">> \o ip
                   \o <<" ", "a", "s", " ", "p", "e", "r", "m", "i", "t", "t", "e", "d", " ", "s", "e", "n", "d", "e", "r">>
          [] key = "softfail" ->
               mta \o <<":", " ", "d", "o", "m", "a", "i", "n", " ", "o", "f", " ", "t", "r", "a", "n", "s", "i", "t", "i", "o", "n", "i", "n", "g", " ">> \o s \o <<" ", "d", "o", "e", "s", " ", "n", "o", "t", " ", "d", "e", "s", "i", "g", "n", "a", "t", "e", " ">> \o ip
                   \o <<" ", "a", "s", " ", "p", "e", "r", "m", "i", "t", "t", "e", "d", " ", "s", "e", "n", "d", "e", "r">>
          [] key = "fail" ->
               mta \o <<":", " ", "d", "o", "m", "a", "i", "n", " ", "o", "f", " ">> \o s \o <<" ", "d", "o", "e", "s", " ", "n", "o", "t", " ", "d", "e", "s", "i", "g", "n", "a", "t", "e", " ">> \o ip
                   \o <<" ", "a", "s", " ", "p", "e", "r", "m", "i", "t", "t", "e", "d", " ", "s", "e", "n", "d", "e", "r">>
          [] key = "neutral" ->
               mta \o <<":", " ">> \o ip \o <<" ", "i", "s", " ", "n", "e", "i", "t", "h", "e", "r", " ", "p", "e", "r", "m", "i", "t", "t", "e", "d", " ", "n", "o", "r", " ", "d", "e", "n", "i", "e", "d", " ", "b", "y", " ", "d", "o", "m", "a", "i", "n", " ", "o", "f", " ">> \o s
          [] key = "none" ->
               mta \o <<":", " ">> \o d \o <<" ", "d", "o", "e", "s", " ", "n", "o", "t", " ", "d", "e", "s", "i", "g", "n", "a", "t", "e", " ", "p", "e", "r", "m", "i", "t", "t", "e", "d", " ", "s", "e", "n", "d", "e", "r", " ", "h", "o", "s", "t", "s">>
          [] key = "permerror" ->
               mta \o <<":", " ", "p", "e", "r", "m", "a", "n", "e", "n", "t", " ", "e", "r", "r", "o", "r", " ", "i", "n", " ", "p", "r", "o", "c", "e", "s", "s", "i", "n", "g", " ", "d", "u", "r", "i", "n", "g", " ", "l", "o", "o", "k", "u", "p", " ", "o", "f", " ">> \o s \o text
          [] OTHER ->
               mta \o <<":", " ", "e", "r", "r", "o", "r", " ", "i", "n", " ", "p", "r", "o", "c", "e", "s", "s", "i", "n", "g", " ", "d", "u", "r", "i", "n", "g", " ", "l", "o", "o", "k", "u", "p", " ", "o", "f", " ">> \o s \o text

\* formatHeaders, line 83: the text of the header; status.comment is a string
\* of at least the fixed words, so the comment is always written
ReceivedSpf(status, comment, clientIp) ==
    <<"R", "e", "c", "e", "i", "v", "e", "d", "-", "S", "P", "F", ":", " ">> \o ResultText(status)
        \o <<" ", "(">> \o escapeCommentValue(comment) \o <<")">>
        \o <<" ", "c", "l", "i", "e", "n", "t", "-", "i", "p", "=">> \o clientIp \o <<";">>

\* formatAuthHeaderRow('spf', status), lines 352-375: status has the result,
\* the comment and smtp with mailfrom and helo; an empty helo is left out
formatAuthHeaderRow(status, comment, mailfrom, helo) ==
    <<"s", "p", "f", "=">> \o ResultText(status)
        \o <<" ", "(">> \o escapeCommentValue(comment) \o <<")">>
        \o (IF mailfrom # << >> THEN <<" ", "s", "m", "t", "p", ".", "m", "a", "i", "l", "f", "r", "o", "m", "=">> \o escapePropValue(mailfrom) ELSE << >>)
        \o (IF helo # << >> THEN <<" ", "s", "m", "t", "p", ".", "h", "e", "l", "o", "=">> \o escapePropValue(helo) ELSE << >>)

\* verify, lines 164-183 and 238-300, for an evaluation that ended with r:
\* the comment as it is placed, the header and the row
SpfHeaders(r, mta, sender0, ip, helo) ==
    LET s == NormalizeSender(sender0, helo)
        d == DomainOf(s)
        r2 == OrDefault(r)
        comment == CommentOf(r2, mta, s, ip, d)
    IN  Value([comment |-> escapeCommentValue(comment),
               header |-> ReceivedSpf(StatusResult(r2), comment, ip),
               info |-> formatAuthHeaderRow(StatusResult(r2), comment, s, helo)])

SpfHeadersCall ==
    /\ call.fn = "spf"
    /\ returned = NoReturn
    /\ returned' = SpfHeaders(call.args[1], call.args[2], call.args[3], call.args[4],
                              call.args[5])
    /\ UNCHANGED << spfVars, call >>

\* the results an evaluation ends with: a qualifier, or an error with a text
\* or without one
CommentResults(texts) ==
    {ResultObject(q, "", << >>) : q \in Qualifiers}
    \cup {ResultObject("", err, t) : err \in {"none", "permerror", "temperror"}, t \in texts}

\* the calls: one of mta, sender, helo and the error text is any short text,
\* the others are plain
PlainMta == <<"m", "x">>
PlainSender == <<"a", "@", "a", ".", "a">>
PlainHelo == <<"a", ".", "a">>

InitSpfHeaders ==
    InitTools(UNION {
        {Call("spf", << r, v, PlainSender, ClientIp, PlainHelo >>) : r \in CommentResults({<< >>})}
        \cup {Call("spf", << r, PlainMta, v, ClientIp, PlainHelo >>) : r \in CommentResults({<< >>})}
        \cup {Call("spf", << r, PlainMta, << >>, ClientIp, v >>) : r \in CommentResults({<< >>})}
        \cup {Call("spf", << r, PlainMta, PlainSender, ClientIp, PlainHelo >>) :
                 r \in CommentResults({v})}
        : v \in StrUpTo(CommentChars, MaxCommentLen)})

SpecSpfHeaders == InitSpfHeaders /\ [][SpfHeadersCall]_vars

\* the header and the row have been made
SpfHeadersMade == call.fn = "spf" /\ returned # NoReturn

\* for each place of a text, whether the character there is escaped: it
\* follows a backslash that is not escaped itself
Escaped(s) ==
    LET E[i \in 0..Len(s)] ==
            IF i <= 1 THEN FALSE ELSE s[i - 1] = "\\" /\ ~E[i - 1]
    IN  E

\* no ')' of the text stands unescaped, and a backslash that is not escaped
\* escapes a ')' or a backslash
ParensEscaped(s) ==
    \A i \in 1..Len(s) :
        /\ s[i] = ")" => Escaped(s)[i]
        /\ (s[i] = "\\" /\ ~Escaped(s)[i]) => (i < Len(s) /\ s[i + 1] \in {")", "\\"})

\* the comment a reader finds in a header text: what stands between the
\* first '(' and the first ')' after it that is not escaped
CommentIn(text) ==
    LET open == CHOOSE i \in 1..Len(text) : text[i] = "(" /\ \A j \in 1..(i - 1) : text[j] # "("
        rest == SubSeq(text, open + 1, Len(text))
        E == Escaped(rest)
        closing == {i \in 1..Len(rest) : rest[i] = ")" /\ ~E[i]}
        close == CHOOSE i \in closing : \A j \in closing : i <= j
    IN  SubSeq(rest, 1, close - 1)

IsPlainKeyRecord(text) == text = <<"p=", "R">>

\* C30 (as stated): for a record that holds a well-formed RSA key of at least
\* 1024 bits, with v= and k= absent, getPublicKey raises no error and
\* returns the key together with the text of the record.
C30_WellFormedKeyReturned ==
    (KeyRecordRead /\ IsPlainKeyRecord(WithoutSpaces(RecordText)))
        => /\ returned.kind = "value"
           /\ returned.value = [publicKey |-> <<"R">>, rr |-> <<"p=", "R">>]

=============================================================================
